---------------------------- MODULE Spec2Model ----------------------------
(***************************************************************************)
(* A model of the luigi worker (src/luigi/worker.py): the dependency       *)
(* enqueuer Worker.add/_add, the coordinator Worker.run with               *)
(* _get_work/_run_task/_purge_children/_handle_next_task, and the          *)
(* executors TaskProcess / ExternalTaskProcess.                            *)
(***************************************************************************)
EXTENDS Integers, Sequences, FiniteSets, TLC

(***************************************************************************)
(* Task ids, and the values the code distinguishes.                        *)
(***************************************************************************)
Tasks == {"A", "B", "C"}

\* An object returned by requires() that is a luigi.target.Target, not a Task.
TargetObj == "Target"

\* Python's None, where the code tests for it (task_limit, task_id, deps).
NoneVal == "None"

PENDING == "PENDING"
RUNNING == "RUNNING"
DONE == "DONE"
FAILED == "FAILED"
SUSPENDED == "SUSPENDED"
DISABLED == "DISABLED"

\* The values check_complete() puts on add()'s queue: task.complete() as it
\* is, or a TracebackWrapper when complete() raised.
TracebackWrapper == "TracebackWrapper"

(***************************************************************************)
(* Bounds of the model.                                                    *)
(***************************************************************************)
MaxAdds == 2          \* add() calls made by the caller
MaxEvents == 4        \* run() calls, tasks handed out by get_work,
                      \* children that die or run past their deadline,
                      \* scheduler operations that fail, and interrupts
MaxPending == 2       \* the counts in an answer of get_work with no task
MaxTasks == 2         \* the tasks given to pbs.targets
MaxStack == 4         \* the length of task_graph's stack

VARIABLES
    \* ---- the Task trait of every task (set at construction of the tasks)
    deps,               \* task.deps(): a sequence of task ids (or TargetObj)
    external,           \* task.run == NotImplemented
    disabled,           \* task.disabled
    complete,           \* what task.complete() does now: "true", "false", "raises"
    task_worker_timeout,\* task.worker_timeout: {} for None, {n} for n seconds
    run_body,           \* what task.run() does: "ok", "fails", "yields",
                        \* "yields2", "slow"
    \* ---- Worker.__init__ arguments / configuration
    worker_processes,
    keep_alive,
    assistant,
    count_uniques,
    max_reschedules,
    task_limit,         \* {} for None, {n} for a limit of n
    worker_timeout,
    retry_external_tasks,
    \* ---- Worker fields
    scheduled_tasks,    \* keys of self._scheduled_tasks
    running_tasks,      \* self._running_tasks: task id -> executor number (0: absent)
    task_result_queue,  \* self._task_result_queue
    unfulfilled_counts, \* self.unfulfilled_counts
    add_succeeded,
    run_succeeded,
    \* ---- the executor processes, by dispatch number
    procs,
    \* ---- add()'s locals while it runs
    queue,              \* the DequeQueue of (task, is_complete)
    seen,
    \* ---- the scheduler's record of the add_task calls
    sched,
    \* ---- control: which Worker method runs and where it is
    pc,
    \* ---- history of the run, kept to state the properties
    hist,
    \* ---- luigi.contrib.pbs: the call of targets(tasks) and its locals
    pbs,
    \* ---- the module's fork_lock, and where the two threads that take it are
    fork_lock

vars == << deps, external, disabled, complete, task_worker_timeout, run_body,
           worker_processes, keep_alive, assistant, count_uniques,
           max_reschedules, task_limit, worker_timeout, retry_external_tasks,
           scheduled_tasks, running_tasks, task_result_queue,
           unfulfilled_counts, add_succeeded, run_succeeded, procs,
           queue, seen, sched, pc, hist, pbs, fork_lock >>

\* What no method of the Worker assigns: the traits of the tasks, and the
\* state of the module pbs; and fork_lock, which a method that takes it
\* has released when it returns.
taskVars == << deps, external, disabled, task_worker_timeout, run_body, pbs,
               fork_lock >>
confVars == << worker_processes, keep_alive, assistant, count_uniques,
               max_reschedules, task_limit, worker_timeout, retry_external_tasks >>

(***************************************************************************)
(* Small helpers.                                                          *)
(***************************************************************************)
Range(s) == { s[i] : i \in 1..Len(s) }

RemoveAt(s, i) == SubSeq(s, 1, i - 1) \o SubSeq(s, i + 1, Len(s))

\* The tasks in a fixed order, to list a set of them as a sequence.
TaskOrder == << "A", "B", "C", "Target" >>

InOrder(S) == SelectSeq(TaskOrder, LAMBDA x : x \in S)

(***************************************************************************)
(* The scheduler's side of add_task: an upsert keyed on the task id.  What *)
(* it keeps per id is the status of the last call and the dependency list  *)
(* of the registration (an argument left None does not change what is      *)
(* kept).  `call` is the rest of the last call for the id as the scheduler *)
(* got it: whether deps was a list, runnable, new_deps, and whether every  *)
(* id in new_deps was registered when the call arrived.                    *)
(***************************************************************************)
NoCall == [has_deps |-> FALSE, runnable |-> NoneVal, new_deps |-> << >>,
           new_known |-> TRUE]

NoEntry == [status |-> NoneVal, deps |-> << >>, call |-> NoCall]

SchedulerAddTask(s, task_id, status, ds, has_ds, runnable, new_ds) ==
    [s EXCEPT ![task_id] =
        [status |-> status,
         deps   |-> IF has_ds THEN ds ELSE @.deps,
         call   |-> [has_deps |-> has_ds, runnable |-> runnable,
                     new_deps |-> new_ds,
                     new_known |-> \A i \in 1..Len(new_ds) :
                                      s[new_ds[i]].status # NoneVal]]]

(***************************************************************************)
(* check_complete(task, out_queue): the value put on the queue.            *)
(***************************************************************************)
check_complete(task) ==
    [item |-> task,
     is_complete |-> IF complete[task] = "raises" THEN TracebackWrapper
                     ELSE complete[task]]

(***************************************************************************)
(* The state add() works on, as one record, so that the traversal is the   *)
(* same operator whether add() is called by the user or from inside        *)
(* _handle_next_task.                                                      *)
(*   n_add, n_reg: how often _add was called for an id, and how often _add *)
(*   registered it, in the add() call that runs (history).                 *)
(***************************************************************************)
AddState(q, sn, st, sc, ok, h) ==
    [queue |-> q, seen |-> sn, scheduled_tasks |-> st, sched |-> sc,
     add_succeeded |-> ok, n_add |-> h.n_add, n_reg |-> h.n_reg,
     skipped |-> h.skipped, aborted |-> h.aborted]

\* The history fields an add() call leaves, put back into the history.
AddHist(h, a) ==
    [h EXCEPT !.n_add = a.n_add, !.n_reg = a.n_reg,
              !.skipped = a.skipped, !.aborted = a.aborted,
              !.ever_aborted = @ \/ a.aborted]

\* _validate_dependency(d): raises unless d is a Task.
_validate_dependency_raises(d) == d \notin Tasks

\* _check_complete_value(is_complete) raises, so formatted_traceback is set.
_check_complete_value_raises(is_complete) == is_complete \notin {"true", "false"}

\* The mutant of _add's task-limit test: the limit is tested with > .
TaskLimitReached_off(a) ==
    \E limit \in task_limit : Cardinality(a.scheduled_tasks) > limit

\* The mutant of _add's task-limit test: the limit is never reached.
TaskLimitReached_never(a) == FALSE

\* if self.task_limit is not None and len(self._scheduled_tasks) >= self.task_limit
TaskLimitReached(a) ==
    \E limit \in task_limit : Cardinality(a.scheduled_tasks) >= limit

\* The mutant of the runnable argument of _add's add_task call: always True.
Runnable_always(task, is_complete) == "True"

\* runnable, as _add sets it in the three branches on is_complete and
\* task.run: False, the option retry-external-tasks, True.
Runnable(task, is_complete) ==
    IF is_complete = "true" THEN "False"
    ELSE IF external[task]
         THEN (IF retry_external_tasks THEN "True" ELSE "False")
         ELSE "True"

\* The mutant of the override of the status: task.disabled is not read.
StatusOf_asfound(task, status0) == status0

\* if task.disabled: status = DISABLED
StatusOf(task, status0) == IF disabled[task] THEN DISABLED ELSE status0

(***************************************************************************)
(* _add(task, is_complete), a generator: `next` is what it yields, `exc`   *)
(* whether it raised (an invalid dependency), `a` the state it leaves.     *)
(***************************************************************************)
_add(task, is_complete, a0) ==
    LET a == [a0 EXCEPT !.n_add[task] = @ + 1] IN
    IF TaskLimitReached(a)
    THEN [a |-> [a EXCEPT !.skipped = @ \cup {task}], next |-> << >>, exc |-> FALSE]
    ELSE IF _check_complete_value_raises(is_complete)
    THEN [a |-> [a EXCEPT !.add_succeeded = FALSE], next |-> << >>, exc |-> FALSE]
    ELSE
      LET has_deps == is_complete # "true" /\ ~external[task]
          ds       == IF has_deps THEN deps[task] ELSE << >>
          status0  == IF is_complete = "true" THEN DONE ELSE PENDING
          runnable == Runnable(task, is_complete)
          status   == StatusOf(task, status0)
          bad      == { i \in 1..Len(ds) : _validate_dependency_raises(ds[i]) }
      IN
      IF bad # {}
      THEN \* the generator raises at the first invalid dependency, before
           \* the task is registered; what it yielded before is in `next`
           LET first == CHOOSE i \in bad : \A j \in bad : i <= j
           IN  [a |-> a, next |-> SubSeq(ds, 1, first - 1), exc |-> TRUE]
      ELSE [a |-> [a EXCEPT
                     !.scheduled_tasks = @ \cup {task},
                     !.sched = SchedulerAddTask(@, task, status, ds, has_deps,
                                                runnable, << >>),
                     !.n_reg[task] = @ + 1],
            next |-> ds, exc |-> FALSE]

\* The mutant of add()'s loop body: the seen set is not consulted.
RECURSIVE Enqueue_noseen(_, _)
Enqueue_noseen(next, a) ==
    IF next = << >> THEN a
    ELSE Enqueue_noseen(Tail(next),
             [a EXCEPT !.seen = @ \cup {Head(next)},
                       !.queue = Append(@, check_complete(Head(next)))])

\* for next in self._add(...): if next.task_id not in seen: ... apply_async
RECURSIVE Enqueue(_, _)
Enqueue(next, a) ==
    IF next = << >> THEN a
    ELSE LET n == Head(next) IN
         Enqueue(Tail(next),
             IF n \in a.seen THEN a
             ELSE [a EXCEPT !.seen = @ \cup {n},
                            !.queue = Append(@, check_complete(n))])

(***************************************************************************)
(* One turn of add()'s while loop: queue.get() gives element i (the last   *)
(* one for the DequeQueue), _add runs, what it yields is enqueued.  An     *)
(* Exception out of _add leaves the loop through add()'s except clause.    *)
(***************************************************************************)
AddIter(a, i) ==
    LET current == a.queue[i]
        r == _add(current.item, current.is_complete,
                  [a EXCEPT !.queue = RemoveAt(@, i)])
    IN  IF r.exc
        THEN [r.a EXCEPT !.queue = << >>, !.add_succeeded = FALSE, !.aborted = TRUE]
        ELSE Enqueue(r.next, r.a)

\* add(task) up to its while loop: add_succeeded = True, the root is checked
\* and put on the queue, seen = {root}.
AddEnter(task, a) ==
    [a EXCEPT !.add_succeeded = TRUE,
              !.queue = << check_complete(task) >>,
              !.seen = {task},
              !.n_add = [t \in Tasks |-> 0],
              !.n_reg = [t \in Tasks |-> 0],
              !.skipped = {},
              !.aborted = FALSE]

\* add(task) with the single-process pool, from call to return.
RECURSIVE AddLoop(_)
AddLoop(a) == IF a.queue = << >> THEN a ELSE AddLoop(AddIter(a, Len(a.queue)))

add(task, a) == AddLoop(AddEnter(task, a))

(***************************************************************************)
(* The state after construction of the Worker.                             *)
(***************************************************************************)
\* The history: what was called and reported so far.
\*   n_adds, n_runs, n_dispatch: add() calls, run() calls, tasks dispatched
\*   n_faults: children that died or ran past their deadline
\*   roots: the tasks add() was called with
\*   n_add, n_reg, skipped, aborted: see AddState; ever_aborted: in any add()
\*   disp, term: per id, dispatches by _run_task and terminal add_task reports
\*   term_log: the terminal reports in the order the scheduler got them
\*   term_expl: the expl argument of each of them
\*   all_ok: every terminal outcome handled in this run() was DONE or
\*           SUSPENDED and no task failed to resolve
\*   n_missing, last: terminal outcomes with a missing list handled, and the
\*           last of them
\*   fault_log: the scheduler operations that failed with a transport error
\*   escaped: the exception the last add() or run() call was left with
\*   ka: the last call of _keep_alive, its arguments and what it returned
\*   n_interim: the RUNNING outcomes reported by _handle_next_task
HistInit ==
    [n_adds |-> 0, n_runs |-> 0, n_dispatch |-> 0, roots |-> {},
     n_add |-> [t \in Tasks |-> 0], n_reg |-> [t \in Tasks |-> 0],
     skipped |-> {}, aborted |-> FALSE, ever_aborted |-> FALSE,
     disp |-> [t \in Tasks |-> 0], term |-> [t \in Tasks |-> 0],
     term_log |-> << >>, term_expl |-> << >>, all_ok |-> TRUE, n_faults |-> 0,
     n_missing |-> 0,
     last |-> [task_id |-> NoneVal, missing |-> << >>, readded |-> FALSE],
     fault_log |-> << >>, escaped |-> NoneVal, n_interim |-> 0,
     ka |-> [called |-> FALSE, n_pending_tasks |-> 0, n_unique_pending |-> 0,
             result |-> NoneVal]]

\* luigi.contrib.pbs: no call of targets(tasks) was made.  `at` is where the
\* call is, tasks its argument, stack, nodes and edges the locals of
\* task_graph, result the list that targets returns.
PbsInit ==
    [at |-> "idle", tasks |-> << >>, stack |-> << >>, nodes |-> {},
     edges |-> {}, result |-> << >>]

\* fork_lock = threading.Lock(), and the KeepAliveThread that __init__
\* starts.  holder is the thread that holds the lock, ping_at where the
\* KeepAliveThread is in its loop, start_at where the coordinator is in the
\* locked part of _run_task, answer the get_work answer it is dispatching,
\* base the number of dispatches when it took the lock, pings the results
\* of the pings made.
ForkInit ==
    [holder |-> "none", ping_at |-> "wait", start_at |-> "idle",
     answer |-> NoneVal, base |-> 0, pings |-> {}]

WorkerInit ==
    /\ scheduled_tasks = {}
    /\ running_tasks = [t \in Tasks |-> 0]
    /\ task_result_queue = << >>
    /\ unfulfilled_counts = [t \in Tasks |-> 0]
    /\ add_succeeded = TRUE
    /\ run_succeeded = TRUE
    /\ procs = << >>
    /\ queue = << >>
    /\ seen = {}
    /\ sched = [t \in Tasks |-> NoEntry]
    /\ pc = "idle"
    /\ hist = HistInit
    /\ pbs = PbsInit
    /\ fork_lock = ForkInit

\* What the bound MaxEvents counts.
Events == hist.n_runs + hist.n_dispatch + hist.n_faults + Len(hist.fault_log)

\* No Worker method is executing: the caller may call add() or run().
AtRest == pc \in {"idle", "add_returned", "add_raised", "run_returned", "run_raised"}

(***************************************************************************)
(* Worker.add(task, multiprocess), one action per turn of its loop.        *)
(***************************************************************************)
CurrentAddState ==
    AddState(queue, seen, scheduled_tasks, sched, add_succeeded, hist)

SetAddState(a, h) ==
    /\ queue' = a.queue
    /\ seen' = a.seen
    /\ scheduled_tasks' = a.scheduled_tasks
    /\ sched' = a.sched
    /\ add_succeeded' = a.add_succeeded
    /\ hist' = AddHist(h, a)

\* add(task) is called with something that is no Task: _validate_task raises
\* TaskException, which add() does not catch.
AddCallInvalid ==
    /\ AtRest
    /\ hist.n_adds < MaxAdds
    /\ add_succeeded' = TRUE
    /\ pc' = "add_raised"
    /\ hist' = [hist EXCEPT !.n_adds = @ + 1, !.escaped = "TaskException"]
    /\ UNCHANGED << taskVars, confVars, complete, scheduled_tasks, running_tasks,
                    task_result_queue, unfulfilled_counts, run_succeeded, procs,
                    queue, seen, sched >>

AddCall(task, multiprocess) ==
    /\ AtRest
    /\ hist.n_adds < MaxAdds
    /\ SetAddState(AddEnter(task, CurrentAddState),
                   [hist EXCEPT !.n_adds = @ + 1, !.roots = @ \cup {task},
                                !.escaped = NoneVal])
    /\ pc' = IF multiprocess THEN "add_mp" ELSE "add"
    /\ UNCHANGED << taskVars, confVars, complete, running_tasks,
                    task_result_queue, unfulfilled_counts, run_succeeded, procs >>

\* One turn of the loop; add() returns when the queue is empty afterwards.
AddStep(i) ==
    /\ pc \in {"add", "add_mp"}
    /\ i \in 1..Len(queue)
    /\ pc = "add" => i = Len(queue)
    /\ LET a == AddIter(CurrentAddState, i) IN
         /\ SetAddState(a, hist)
         /\ pc' = IF a.queue = << >> THEN "add_returned" ELSE pc
    /\ UNCHANGED << taskVars, confVars, complete, running_tasks,
                    task_result_queue, unfulfilled_counts, run_succeeded, procs >>

(***************************************************************************)
(* The specification of add() alone, over every dependency graph on the    *)
(* three tasks (cycles included), every outcome of complete(), and a task  *)
(* limit.                                                                  *)
(***************************************************************************)
DepChoices(t) == { InOrder(S) : S \in SUBSET (Tasks \ {t}) }

\* Every graph on the tasks; in half of them requires() of task A also
\* returns a Target object.
GraphsAdd ==
    { g \in [Tasks -> UNION { DepChoices(t) : t \in Tasks }] :
        \A t \in Tasks : g[t] \in DepChoices(t) }
    \cup
    { [g EXCEPT !["A"] = Append(@, TargetObj)] :
        g \in { h \in [Tasks -> UNION { DepChoices(t) : t \in Tasks }] :
                  \A t \in Tasks : h[t] \in DepChoices(t) } }

InitAdd ==
    /\ deps \in GraphsAdd
    /\ complete \in [Tasks -> {"true", "false", "raises"}]
    \* whether a task has a run() body matters to add() only if it is
    \* incomplete; C is the task that may be without one
    /\ external \in { e \in [Tasks -> BOOLEAN] :
                        \A t \in Tasks : e[t] => (t = "C" /\ complete[t] = "false") }
    /\ disabled = [t \in Tasks |-> FALSE]
    /\ task_worker_timeout = [t \in Tasks |-> {}]
    /\ run_body = [t \in Tasks |-> "ok"]
    /\ worker_timeout = 0
    /\ worker_processes = 1
    /\ keep_alive = FALSE
    /\ assistant = FALSE
    /\ count_uniques = FALSE
    /\ max_reschedules = 1
    /\ task_limit \in {{}, {1}, {2}}
    /\ retry_external_tasks = FALSE
    /\ WorkerInit

NextAdd ==
    \/ AddCallInvalid
    \/ \E t \in Tasks, mp \in BOOLEAN : AddCall(t, mp)
    \/ \E i \in 1..3 : AddStep(i)

SpecAdd == InitAdd /\ [][NextAdd]_vars

(***************************************************************************)
(* The attributes Worker.__init__ assigns (worker.py:287-370).  Reading    *)
(* any other attribute of the Worker raises AttributeError.  Inside class  *)
(* Worker the name self.__max_reschedules is the attribute                 *)
(* _Worker__max_reschedules.                                               *)
(***************************************************************************)
WorkerAttrs ==
    {"worker_processes", "_worker_info", "keep_alive", "_count_uniques",
     "_wait_interval", "_max_reschedules", "worker_timeout", "task_limit",
     "_id", "_scheduler", "_assistant", "host", "_scheduled_tasks",
     "_suspended_tasks", "_first_task", "add_succeeded", "run_succeeded",
     "unfulfilled_counts", "_keep_alive_thread", "_task_result_queue",
     "_running_tasks"}

(***************************************************************************)
(* Outcomes on the result queue, and the executors.                        *)
(***************************************************************************)
Outcome(task_id, status, expl, missing, new_deps) ==
    [task_id |-> task_id, status |-> status, expl |-> expl,
     missing |-> missing, new_deps |-> new_deps]

\* run() of a task returns ("ok"), raises ("fails"), is a generator that
\* yields one batch of tasks and then returns ("yields"), or returns after a
\* time longer than any deadline ("slow").  The batch:
YieldBatch == << "C" >>

\* The new_deps of the interim outcome put for a batch that is complete:
\* the put comes before `new_deps = []`.
InterimDeps_reset(batch) == << >>

InterimDeps(batch) == batch

\* How often the generator yields the batch: once, or twice ("yields2").
Batches(t) == IF run_body[t] = "yields2" THEN 1 + 1 ELSE 1

\* ExternalTaskProcess.run(): the one outcome it puts on the queue, and the
\* events it triggers, in order.  There is no run() to invoke.  When
\* complete() returns, true or false, control goes on to on_success and the
\* SUCCESS event; the except clause is entered only when complete() raises.
ExternalTaskProcess_run(t) ==
    [out |-> << Outcome(t, IF complete[t] = "true" THEN DONE ELSE FAILED,
                        IF complete[t] = "raises" THEN "traceback" ELSE "on_success",
                        << >>, << >>) >>,
     completes |-> FALSE,
     ran |-> FALSE,
     events |-> << "START", "PROCESSING_TIME",
                   IF complete[t] = "raises" THEN "FAILURE" ELSE "SUCCESS" >>]

\* The mutant of the dependency check: every dependency is listed.
MissingDeps_all(t) == deps[t]

\* [dep.task_id for dep in self.task.deps() if not dep.complete()]
MissingDeps(t) == SelectSeq(deps[t], LAMBDA d : complete[d] # "true")

\* TaskProcess.run(): the outcomes it puts on the queue, in order, whether
\* run() got to its end (and so wrote the task's output), whether the
\* task's run() was invoked, and the events triggered, in order.
TaskProcess_run(t) ==
    IF \E i \in 1..Len(deps[t]) : deps[t][i] \notin Tasks \/ complete[deps[t][i]] = "raises"
    THEN \* the dependency check itself raised: missing is still []
         [out |-> << Outcome(t, FAILED, "traceback", << >>, << >>) >>,
          completes |-> FALSE, ran |-> FALSE, events |-> << "FAILURE" >>]
    ELSE IF MissingDeps(t) # << >>
    THEN [out |-> << Outcome(t, FAILED, "Unfulfilled dependencies at run time",
                             MissingDeps(t), << >>) >>,
          completes |-> FALSE, ran |-> FALSE, events |-> << "FAILURE" >>]
    ELSE IF run_body[t] \in {"ok", "slow"}
    THEN [out |-> << Outcome(t, DONE, "on_success", << >>, << >>) >>,
          completes |-> TRUE, ran |-> TRUE,
          events |-> << "START", "PROCESSING_TIME", "SUCCESS" >>]
    ELSE IF run_body[t] = "fails"
    THEN [out |-> << Outcome(t, FAILED, "traceback", << >>, << >>) >>,
          completes |-> FALSE, ran |-> TRUE,
          events |-> << "START", "PROCESSING_TIME", "FAILURE" >>]
    ELSE \* a generator: one batch, then StopIteration
         IF \E i \in 1..Len(YieldBatch) : complete[YieldBatch[i]] = "raises"
         THEN [out |-> << Outcome(t, FAILED, "traceback", << >>, << >>) >>,
               completes |-> FALSE, ran |-> TRUE,
               events |-> << "START", "PROCESSING_TIME", "FAILURE" >>]
         ELSE IF \A i \in 1..Len(YieldBatch) : complete[YieldBatch[i]] = "true"
         THEN [out |-> [i \in 1..Batches(t) |->
                                 Outcome(t, RUNNING, "", << >>,
                                         InterimDeps(YieldBatch))]
                          \o << Outcome(t, DONE, "on_success", << >>, << >>) >>,
               completes |-> TRUE, ran |-> TRUE,
               events |-> << "START", "PROCESSING_TIME", "SUCCESS" >>]
         ELSE [out |-> << Outcome(t, SUSPENDED, "", << >>, YieldBatch) >>,
               completes |-> FALSE, ran |-> TRUE, events |-> << "START" >>]

\* AbstractTaskProcess.__init__: the task's own worker_timeout when it is
\* not None, the worker's otherwise.
EffectiveTimeout(t) ==
    IF task_worker_timeout[t] # {}
    THEN CHOOSE n \in task_worker_timeout[t] : TRUE
    ELSE worker_timeout

\* self.timeout_time = time.time() + worker_timeout if worker_timeout else None:
\* None for 0, a time not yet reached ("ahead") for a positive timeout, a
\* time already gone ("passed") for a negative one.
TimeoutTime(t) ==
    IF EffectiveTimeout(t) = 0 THEN NoneVal
    ELSE IF EffectiveTimeout(t) > 0 THEN "ahead" ELSE "passed"

\* The mutant of the writing of the output: run() leaves no output.
Completed_never(t) == complete

\* The writing of the task's output by a run() that got to its end.
Completed(t) == [complete EXCEPT ![t] = IF @ = "false" THEN "true" ELSE @]

Running == { t \in Tasks : running_tasks[t] # 0 }

\* The mutant of len(self._running_tasks): the length of a dict that is
\* always empty (self._suspended_tasks).
LenRunning_suspended == Cardinality({ t \in Tasks : FALSE })

\* len(self._running_tasks)
LenRunning == Cardinality(Running)

\* The mutant of the backpressure test: > for >= .
Backpressure_gt == LenRunning > worker_processes

\* while len(self._running_tasks) >= self.worker_processes
Backpressure == LenRunning >= worker_processes

(***************************************************************************)
(* _purge_children(): for every running task, in the order the dict is     *)
(* iterated, a dead child with a nonzero exit code gets a FAILED outcome,  *)
(* a child alive past its deadline is terminated and gets one too.         *)
(***************************************************************************)
PurgeChild(t, pq) ==
    LET p == pq.procs[running_tasks[t]] IN
    IF ~p.alive /\ p.exitcode = "nonzero"
    THEN [procs |-> pq.procs,
          q |-> Append(pq.q, Outcome(t, FAILED, "died unexpectedly", << >>, << >>))]
    ELSE IF p.timeout_time = "passed" /\ p.alive
    THEN [procs |-> [pq.procs EXCEPT ![running_tasks[t]].terminated = TRUE],
          q |-> Append(pq.q, Outcome(t, FAILED, "timed out and was terminated",
                                     << >>, << >>))]
    ELSE pq

RECURSIVE PurgeAll(_, _)
PurgeAll(order, pq) ==
    IF order = << >> THEN pq
    ELSE PurgeAll(Tail(order), PurgeChild(Head(order), pq))

Reverse(s) == [i \in 1..Len(s) |-> s[Len(s) + 1 - i]]

_purge_children(reversed) ==
    PurgeAll(IF reversed THEN Reverse(InOrder(Running)) ELSE InOrder(Running),
             [procs |-> procs, q |-> task_result_queue])

\* The mutant of the registration of new requirements: none is added.
AddAll_none(new_req, a) == a

(***************************************************************************)
(* _handle_next_task(), the parts of one turn of its loop.                 *)
(***************************************************************************)
\* for t in new_req: self.add(t)
RECURSIVE AddAll(_, _)
AddAll(new_req, a) ==
    IF new_req = << >> THEN a ELSE AddAll(Tail(new_req), add(Head(new_req), a))

\* The mutant of the test for a running task: every outcome is taken.
IsRunning_always(task_id) == TRUE

\* task_id in self._running_tasks
IsRunning(task_id) == running_tasks[task_id] # 0

\* The mutant of the test for an interim outcome: none is interim.
IsInterim_never(status) == FALSE

\* if status == RUNNING: continue
IsInterim(status) == status = RUNNING

\* The mutant of the success test: SUSPENDED counts as a failure.
Succeeded_done(status) == status \in {DONE}

\* status in (DONE, SUSPENDED)
Succeeded(status) == status \in {DONE, SUSPENDED}

Occurrences(s, x) == Cardinality({ i \in 1..Len(s) : s[i] = x })

\* The block under `if missing:`.  The loop bumps the count of each missing
\* id and compares it with self.__max_reschedules; that attribute does not
\* exist, so the first comparison raises AttributeError, after the first
\* bump.  With the attribute the loop runs to its end and the task is
\* re-added through add(task) unless a count is over max_reschedules.
RescheduleMissing(task_id, missing, counts, a) ==
    IF "_Worker__max_reschedules" \notin WorkerAttrs
    THEN [counts |-> [counts EXCEPT ![Head(missing)] = @ + 1],
          a |-> a, readded |-> FALSE, raised |-> TRUE]
    ELSE LET bumped == [t \in Tasks |-> counts[t] + Occurrences(missing, t)]
             reschedule == \A t \in Range(missing) : ~(bumped[t] > max_reschedules)
         IN  [counts |-> bumped,
              a |-> IF reschedule THEN add(task_id, a) ELSE a,
              readded |-> reschedule, raised |-> FALSE]

\* One turn of the loop of _handle_next_task.  `ret` is where control is
\* after _handle_next_task returns, `cont` where it is when the loop goes
\* round again, `reversed` the order _purge_children iterates in.
HandleTurn(ret, cont, reversed) ==
    LET pq == _purge_children(reversed) IN
    IF pq.q = << >>
    THEN \* Queue.Empty after wait_interval: return
         /\ procs' = pq.procs
         /\ pc' = ret
         /\ UNCHANGED << task_result_queue, running_tasks, scheduled_tasks, sched,
                         add_succeeded, run_succeeded, unfulfilled_counts, hist >>
    ELSE
      LET o == Head(pq.q) IN
      /\ procs' = pq.procs
      /\ task_result_queue' = Tail(pq.q)
      /\ IF ~IsRunning(o.task_id)
         THEN \* not a running task: continue
              /\ pc' = cont
              /\ UNCHANGED << running_tasks, scheduled_tasks, sched, add_succeeded,
                              run_succeeded, unfulfilled_counts, hist >>
         ELSE
           LET a0 == AddState(<< >>, {}, scheduled_tasks, sched, add_succeeded, hist)
               a1 == AddAll(o.new_deps, a0)
               a2 == [a1 EXCEPT !.sched = SchedulerAddTask(@, o.task_id, o.status,
                                              << >>, FALSE, NoneVal, o.new_deps)]
           IN
           IF IsInterim(o.status)
           THEN \* an interim outcome: reported, the loop goes round again
                /\ pc' = cont
                /\ scheduled_tasks' = a2.scheduled_tasks
                /\ sched' = a2.sched
                /\ add_succeeded' = a2.add_succeeded
                /\ hist' = [hist EXCEPT !.n_interim = @ + 1]
                /\ UNCHANGED << running_tasks, run_succeeded, unfulfilled_counts >>
           ELSE
             LET h1 == [hist EXCEPT
                          !.term[o.task_id] = @ + 1,
                          !.term_log = Append(@, << o.task_id, o.status >>),
                          !.term_expl = Append(@, o.expl),
                          !.all_ok = @ /\ o.status \in {DONE, SUSPENDED}]
             IN
             /\ running_tasks' = [running_tasks EXCEPT ![o.task_id] = 0]
             /\ IF o.missing # << >>
                THEN LET r == RescheduleMissing(o.task_id, o.missing,
                                                unfulfilled_counts, a2)
                     IN  /\ unfulfilled_counts' = r.counts
                         /\ scheduled_tasks' = r.a.scheduled_tasks
                         /\ sched' = r.a.sched
                         /\ add_succeeded' = r.a.add_succeeded
                         /\ hist' = [h1 EXCEPT
                                       !.n_missing = @ + 1,
                                       !.last = [task_id |-> o.task_id,
                                                 missing |-> o.missing,
                                                 readded |-> r.readded],
                                       !.escaped = IF r.raised THEN "AttributeError"
                                                   ELSE @]
                         /\ IF r.raised
                            THEN pc' = "run_raised" /\ UNCHANGED run_succeeded
                            ELSE /\ pc' = ret
                                 /\ run_succeeded' = (run_succeeded /\ Succeeded(o.status))
                ELSE /\ scheduled_tasks' = a2.scheduled_tasks
                     /\ sched' = a2.sched
                     /\ add_succeeded' = a2.add_succeeded
                     /\ hist' = h1
                     /\ run_succeeded' = (run_succeeded /\ Succeeded(o.status))
                     /\ pc' = ret
                     /\ UNCHANGED unfulfilled_counts

(***************************************************************************)
(* _get_work(): the scheduler's answer r is normalised, and a task id this *)
(* worker did not schedule is loaded dynamically.  r.form is "dict" for    *)
(* the record form and "tuple" for the old (n_pending_tasks, task_id);     *)
(* r.loadable says whether load_task finds the task's class.               *)
(***************************************************************************)
_get_work(r) ==
    LET n_unique_pending == IF r.form = "tuple" THEN 0 ELSE r.n_unique_pending
        same == [task_id |-> r.task_id, n_pending_tasks |-> r.n_pending_tasks,
                 n_unique_pending |-> n_unique_pending,
                 scheduled_tasks |-> scheduled_tasks, sched |-> sched,
                 run_succeeded |-> run_succeeded, raised |-> FALSE,
                 unresolved |-> FALSE]
    IN
    IF r.task_id # NoneVal /\ r.task_id \notin scheduled_tasks
    THEN IF r.form = "tuple"
         THEN \* r.get('task_module') on a tuple or list: AttributeError
              [same EXCEPT !.raised = TRUE]
         ELSE IF r.loadable
         THEN [same EXCEPT !.scheduled_tasks = @ \cup {r.task_id}]
         ELSE \* TaskClassException
              [same EXCEPT !.sched = SchedulerAddTask(@, r.task_id, FAILED, << >>,
                                                       FALSE, "False", << >>),
                           !.task_id = NoneVal,
                           !.run_succeeded = FALSE,
                           !.unresolved = TRUE]
    ELSE same

\* _keep_alive(n_pending_tasks, n_unique_pending): "true", "false", or
\* "raises" when it reads self.count_uniques, which __init__ never assigns.
_keep_alive(n_pending_tasks, n_unique_pending) ==
    IF ~keep_alive THEN "false"
    ELSE IF assistant THEN "true"
    ELSE IF n_pending_tasks = 0 THEN "false"
    ELSE IF n_unique_pending # 0 THEN "true"
    ELSE IF "count_uniques" \notin WorkerAttrs THEN "raises"
    ELSE IF ~count_uniques THEN "true" ELSE "false"

\* The answers of get_work: no scheduler hands out a task that it has as
\* RUNNING at this very worker.  Fields that _get_work and run() do not read
\* in the state at hand are held at one value.
GetWorkAnswers ==
    { r \in [form : {"dict", "tuple"}, task_id : (Tasks \ Running) \cup {NoneVal},
             n_pending_tasks : {0, 1}, n_unique_pending : {0, 1},
             loadable : BOOLEAN] :
        /\ (r.task_id \in scheduled_tasks \cup {NoneVal} \/ r.form = "tuple")
              => r.loadable
        /\ (r.task_id \in scheduled_tasks) => r.form = "dict"
        /\ (r.task_id # NoneVal /\ r.loadable) => r.n_pending_tasks = 1
        /\ (~keep_alive \/ LenRunning # 0) => r.n_pending_tasks = 1
        /\ (r.form = "tuple" \/ r.n_pending_tasks = 0
              \/ ~keep_alive \/ LenRunning # 0
              \/ (r.task_id # NoneVal /\ r.loadable))
              => r.n_unique_pending = 0 }

(***************************************************************************)
(* _run_task(task_id): the executor is made and entered in _running_tasks; *)
(* with one worker process it runs inline, to its end, before _run_task    *)
(* returns, otherwise it is started as a child process, which makes its    *)
(* dependency check and its completeness checks as it starts; what it then *)
(* puts on the queue, one outcome at a time, is in `todo`.                 *)
(***************************************************************************)
_run_task(task_id) ==
    LET plan == IF external[task_id] THEN ExternalTaskProcess_run(task_id)
                ELSE TaskProcess_run(task_id)
        inline == ~(worker_processes > 1)
        p == [task_id |-> task_id,
              alive |-> ~inline,
              exitcode |-> NoneVal,
              \* an inline run() that is slow ends after the deadline
              timeout_time |-> IF inline /\ run_body[task_id] = "slow"
                                  /\ TimeoutTime(task_id) = "ahead"
                               THEN "passed" ELSE TimeoutTime(task_id),
              terminated |-> FALSE,
              todo |-> IF inline THEN << >> ELSE plan.out,
              completes |-> ~inline /\ plan.completes,
              \* whether the task's run() is invoked, what the executor puts
              \* and the events it triggers, if it is not killed on its way
              ran |-> plan.ran,
              out |-> plan.out,
              events |-> plan.events]
    IN
    /\ procs' = Append(procs, p)
    /\ running_tasks' = [running_tasks EXCEPT ![task_id] = Len(procs) + 1]
    /\ task_result_queue' = IF inline THEN task_result_queue \o plan.out
                            ELSE task_result_queue
    /\ complete' = IF inline /\ plan.completes THEN Completed(task_id) ELSE complete
    /\ hist' = [hist EXCEPT !.n_dispatch = @ + 1, !.disp[task_id] = @ + 1]

(***************************************************************************)
(* Worker.run().                                                           *)
(***************************************************************************)
RunCall ==
    /\ AtRest
    /\ Events < MaxEvents
    /\ run_succeeded' = TRUE
    /\ pc' = "run_loop"
    /\ hist' = [hist EXCEPT !.n_runs = @ + 1, !.all_ok = TRUE,
                             !.escaped = NoneVal]
    /\ UNCHANGED << taskVars, confVars, complete, scheduled_tasks, running_tasks,
                    task_result_queue, unfulfilled_counts, add_succeeded, procs,
                    queue, seen, sched >>

\* One turn of the claim loop past the backpressure loop: get_work, then the
\* idle case or the dispatch.
ClaimWork(r) ==
    /\ pc = "run_loop"
    /\ ~Backpressure
    /\ r.task_id # NoneVal => Events < MaxEvents
    /\ LET g == _get_work(r) IN
       /\ scheduled_tasks' = g.scheduled_tasks
       /\ sched' = g.sched
       /\ IF g.raised
          THEN /\ pc' = "run_raised"
               /\ hist' = [hist EXCEPT !.escaped = "AttributeError"]
               /\ UNCHANGED << run_succeeded, procs, running_tasks, task_result_queue,
                               complete >>
          ELSE IF g.task_id = NoneVal
          THEN /\ run_succeeded' = g.run_succeeded
               /\ hist' = [hist EXCEPT
                             !.all_ok = @ /\ ~g.unresolved,
                             !.escaped =
                                IF LenRunning = 0
                                   /\ _keep_alive(g.n_pending_tasks,
                                                  g.n_unique_pending) = "raises"
                                THEN "AttributeError" ELSE @,
                             !.ka =
                                IF LenRunning = 0
                                THEN [called |-> TRUE,
                                      n_pending_tasks |-> g.n_pending_tasks,
                                      n_unique_pending |-> g.n_unique_pending,
                                      result |-> _keep_alive(g.n_pending_tasks,
                                                             g.n_unique_pending)]
                                ELSE @]
               /\ pc' = IF LenRunning = 0
                        THEN CASE _keep_alive(g.n_pending_tasks, g.n_unique_pending) = "true"
                                    -> "run_loop"     \* six.next(sleeper); continue
                               [] _keep_alive(g.n_pending_tasks, g.n_unique_pending) = "false"
                                    -> "run_drain"    \* break
                               [] OTHER -> "run_raised"
                        ELSE "run_handle"
               /\ UNCHANGED << procs, running_tasks, task_result_queue, complete >>
          ELSE /\ _run_task(g.task_id)
               /\ pc' = "run_loop"
               /\ UNCHANGED run_succeeded
    /\ UNCHANGED << taskVars, confVars, unfulfilled_counts, add_succeeded, queue, seen >>

\* _handle_next_task(), one turn of its loop: called from the backpressure
\* loop, from the idle case while tasks are running, or from the loop that
\* follows the claim loop.
HandleNextTask(reversed) ==
    /\ pc \in {"run_loop", "run_handle", "run_drain"}
    /\ pc = "run_loop" => Backpressure
    /\ pc = "run_drain" => LenRunning # 0
    /\ HandleTurn(IF pc = "run_drain" THEN "run_drain" ELSE "run_loop", pc, reversed)
    /\ UNCHANGED << taskVars, confVars, complete, queue, seen >>

\* while len(self._running_tasks): ... is over; return self.run_succeeded
RunReturn ==
    /\ pc = "run_drain"
    /\ LenRunning = 0
    /\ pc' = "run_returned"
    /\ UNCHANGED << taskVars, confVars, complete, scheduled_tasks, running_tasks,
                    task_result_queue, unfulfilled_counts, add_succeeded,
                    run_succeeded, procs, queue, seen, sched, hist >>

(***************************************************************************)
(* The child processes (worker_processes > 1).                             *)
(***************************************************************************)
\* The child puts its next outcome on the queue; after the last it exits
\* with code 0.
ExecPut(d) ==
    /\ d \in 1..Len(procs)
    /\ procs[d].alive /\ ~procs[d].terminated /\ procs[d].todo # << >>
    \* a slow run() with a deadline does not end before the reaper looks
    /\ ~(run_body[procs[d].task_id] = "slow" /\ procs[d].timeout_time # NoneVal)
    /\ task_result_queue' = Append(task_result_queue, Head(procs[d].todo))
    /\ LET last == Len(procs[d].todo) = 1 IN
       /\ procs' = [procs EXCEPT ![d].todo = Tail(@),
                                 ![d].alive = ~last,
                                 ![d].exitcode = IF last THEN "0" ELSE @]
       /\ complete' = IF last /\ procs[d].completes
                      THEN Completed(procs[d].task_id) ELSE complete
    /\ UNCHANGED << taskVars, confVars, scheduled_tasks, running_tasks,
                    unfulfilled_counts, add_succeeded, run_succeeded,
                    queue, seen, sched, pc, hist >>

\* The child dies (killed, or terminated by the reaper) with a nonzero exit
\* code, and puts nothing more on the queue.
ExecDie(d) ==
    /\ d \in 1..Len(procs)
    /\ procs[d].alive
    /\ running_tasks[procs[d].task_id] = d    \* otherwise nobody looks at it
    /\ procs[d].terminated \/ Events < MaxEvents
    /\ procs' = [procs EXCEPT ![d].alive = FALSE, ![d].exitcode = "nonzero",
                              ![d].todo = << >>]
    /\ hist' = [hist EXCEPT !.n_faults = IF procs[d].terminated THEN @ ELSE @ + 1]
    /\ UNCHANGED << taskVars, confVars, complete, scheduled_tasks, running_tasks,
                    task_result_queue, unfulfilled_counts, add_succeeded,
                    run_succeeded, queue, seen, sched, pc >>

\* Time passes the deadline of a child.
Tick(d) ==
    /\ d \in 1..Len(procs)
    /\ procs[d].alive /\ procs[d].timeout_time = "ahead"
    /\ running_tasks[procs[d].task_id] = d    \* otherwise nobody looks at it
    /\ Events < MaxEvents
    /\ procs' = [procs EXCEPT ![d].timeout_time = "passed"]
    /\ hist' = [hist EXCEPT !.n_faults = @ + 1]
    /\ UNCHANGED << taskVars, confVars, complete, scheduled_tasks, running_tasks,
                    task_result_queue, unfulfilled_counts, add_succeeded,
                    run_succeeded, queue, seen, sched, pc >>

(***************************************************************************)
(* The specification of the worker: add() of a root, then run() called     *)
(* again and again.  With one worker process the executors run inline and  *)
(* no deadline is ever read; with two they are children that may die or    *)
(* run past the deadline.                                                  *)
(***************************************************************************)
GraphsRun ==
    { [A |-> << "C" >>, B |-> << "C" >>, C |-> << >>],
      [A |-> << "B", "C" >>, B |-> << >>, C |-> << >>] }

Init ==
    /\ worker_processes \in {1, 2}
    /\ deps \in IF worker_processes = 1 THEN GraphsRun
                ELSE {[A |-> << "C" >>, B |-> << "C" >>, C |-> << >>]}
    /\ external = [t \in Tasks |-> FALSE]
    /\ disabled = [t \in Tasks |-> FALSE]
    /\ complete \in { [A |-> "false", B |-> "false", C |-> c] : c \in {"true", "false"} }
    /\ task_worker_timeout = [t \in Tasks |-> {}]
    /\ run_body \in IF worker_processes = 1
                    THEN { b \in [Tasks -> {"ok", "fails", "yields"}] : b["C"] = "ok" }
                    ELSE { [A |-> "yields", B |-> "ok", C |-> "ok"] }
    /\ keep_alive \in IF worker_processes = 1 THEN BOOLEAN ELSE {FALSE}
    /\ assistant = FALSE
    /\ count_uniques = FALSE
    /\ max_reschedules \in IF worker_processes = 1 THEN {0, 1} ELSE {0}
    /\ task_limit = {}
    /\ worker_timeout = IF worker_processes = 1 THEN 0 ELSE 1
    /\ retry_external_tasks = FALSE
    /\ WorkerInit

Next ==
    \/ hist.n_adds = 0 /\ hist.n_runs = 0 /\ AddCall("A", FALSE)
    \/ \E i \in 1..3 : AddStep(i)
    \/ RunCall
    \/ \E r \in GetWorkAnswers : ClaimWork(r)
    \/ \E reversed \in {FALSE} \cup {LenRunning > 1} : HandleNextTask(reversed)
    \/ RunReturn
    \/ \E d \in 1..MaxEvents : ExecPut(d)
    \/ \E d \in 1..MaxEvents : ExecDie(d)
    \/ \E d \in 1..MaxEvents : Tick(d)

Spec == Init /\ [][Next]_vars

(***************************************************************************)
(* The chain scenario: three tasks in a chain, all incomplete, run() bodies*)
(* that return, one worker process, no keep-alive, and a scheduler that    *)
(* hands out a task it has as PENDING once all the dependencies it was     *)
(* told of are DONE, and answers task_id = None otherwise.                 *)
(***************************************************************************)
\* The chain in which top requires mid and mid requires leaf.
Chain(top, mid, leaf) ==
    [t \in Tasks |-> IF t = top THEN << mid >>
                     ELSE IF t = mid THEN << leaf >> ELSE << >>]

ChainGraphs ==
    { Chain(c[3], c[2], c[1]) :
        c \in { x \in [1..3 -> Tasks] : \A i, j \in 1..3 : x[i] = x[j] => i = j } }

Leaf == CHOOSE t \in Tasks : deps[t] = << >>
Mid  == CHOOSE t \in Tasks : deps[t] = << Leaf >>
Top  == CHOOSE t \in Tasks : deps[t] = << Mid >>

SchedulerEligible ==
    { t \in Tasks \ Running :
        /\ sched[t].status = PENDING
        /\ \A d \in Range(sched[t].deps) : sched[d].status = DONE }

SchedulerGetWork ==
    IF SchedulerEligible = {}
    THEN {[form |-> "dict", task_id |-> NoneVal, n_pending_tasks |-> 0,
           n_unique_pending |-> 0, loadable |-> TRUE]}
    ELSE { [form |-> "dict", task_id |-> t, n_pending_tasks |-> 1,
            n_unique_pending |-> 1, loadable |-> TRUE] : t \in SchedulerEligible }

InitChain ==
    /\ deps \in ChainGraphs
    /\ external = [t \in Tasks |-> FALSE]
    /\ disabled = [t \in Tasks |-> FALSE]
    /\ complete = [t \in Tasks |-> "false"]
    /\ task_worker_timeout = [t \in Tasks |-> {}]
    /\ run_body = [t \in Tasks |-> "ok"]
    /\ worker_processes = 1
    /\ keep_alive = FALSE
    /\ assistant = FALSE
    /\ count_uniques = FALSE
    /\ max_reschedules = 1
    /\ task_limit = {}
    /\ worker_timeout = 0
    /\ retry_external_tasks = FALSE
    /\ WorkerInit

NextChain ==
    \/ \E t \in Tasks : AddCall(t, FALSE)
    \/ \E i \in 1..3 : AddStep(i)
    \/ RunCall
    \/ \E r \in SchedulerGetWork : ClaimWork(r)
    \/ HandleNextTask(FALSE)
    \/ RunReturn

SpecChain == InitChain /\ [][NextChain]_vars

(***************************************************************************)
(* The timeout scenario: tasks without dependencies, task A with a slow    *)
(* run() and maybe a worker_timeout of its own, a worker timeout that is   *)
(* negative, zero or positive, executors inline or as children.            *)
(***************************************************************************)
InitTimeout ==
    /\ worker_processes \in {1, 2}
    /\ deps = [t \in Tasks |-> << >>]
    /\ external = [t \in Tasks |-> FALSE]
    /\ disabled = [t \in Tasks |-> FALSE]
    /\ complete = [t \in Tasks |-> "false"]
    /\ task_worker_timeout \in { [A |-> own, B |-> {}, C |-> {}] : own \in {{}, {0}, {1}} }
    /\ run_body = [A |-> "slow", B |-> "ok", C |-> "ok"]
    /\ keep_alive = FALSE
    /\ assistant = FALSE
    /\ count_uniques = FALSE
    /\ max_reschedules = 1
    /\ task_limit = {}
    /\ worker_timeout \in {-1, 0, 1}
    /\ retry_external_tasks = FALSE
    /\ WorkerInit

NextTimeout ==
    \/ RunCall
    \/ \E r \in GetWorkAnswers : ClaimWork(r)
    \/ \E reversed \in {FALSE} \cup {LenRunning > 1} : HandleNextTask(reversed)
    \/ RunReturn
    \/ \E d \in 1..MaxEvents : ExecPut(d)
    \/ \E d \in 1..MaxEvents : ExecDie(d)
    \/ \E d \in 1..MaxEvents : Tick(d)

SpecTimeout == InitTimeout /\ [][NextTimeout]_vars

(***************************************************************************)
(* Scheduler operations that fail with a transport error (an RPCError, an  *)
(* Exception), and an interrupt of the coordinator.                        *)
(***************************************************************************)
\* A turn of add()'s loop in which the add_task call of _add raises.  The
\* generator has yielded the dependencies, which add() has enqueued, and
\* self._scheduled_tasks[task_id] is assigned before the call; the error
\* goes through the for loop to add()'s `except Exception`.
AddIterFails(a, i) ==
    LET current == a.queue[i]
        r == _add(current.item, current.is_complete,
                  [a EXCEPT !.queue = RemoveAt(@, i)])
    IN  [r.a EXCEPT !.queue = << >>, !.add_succeeded = FALSE, !.aborted = TRUE,
                    !.sched = a.sched, !.n_reg = a.n_reg]

\* _add gets as far as its add_task call for element i of the queue.
ReachesAddTask(a, i) ==
    LET r == _add(a.queue[i].item, a.queue[i].is_complete,
                  [a EXCEPT !.queue = RemoveAt(@, i)])
    IN  ~r.exc /\ r.a.n_reg[a.queue[i].item] = a.n_reg[a.queue[i].item] + 1

AddStepFails(i) ==
    /\ pc \in {"add", "add_mp"}
    /\ i \in 1..Len(queue)
    /\ pc = "add" => i = Len(queue)
    /\ Events < MaxEvents
    /\ ReachesAddTask(CurrentAddState, i)
    /\ SetAddState(AddIterFails(CurrentAddState, i),
                   [hist EXCEPT !.fault_log = Append(@, "add_task")])
    /\ pc' = "add_returned"
    /\ UNCHANGED << taskVars, confVars, complete, running_tasks,
                    task_result_queue, unfulfilled_counts, run_succeeded, procs >>

\* run() is called and add_worker raises: _add_worker catches BaseException.
RunCallAddWorkerFails ==
    /\ AtRest
    /\ Events + 1 < MaxEvents
    /\ run_succeeded' = TRUE
    /\ pc' = "run_loop"
    /\ hist' = [hist EXCEPT !.n_runs = @ + 1, !.all_ok = TRUE,
                             !.escaped = NoneVal,
                             !.fault_log = Append(@, "add_worker")]
    /\ UNCHANGED << taskVars, confVars, complete, scheduled_tasks, running_tasks,
                    task_result_queue, unfulfilled_counts, add_succeeded, procs,
                    queue, seen, sched >>

\* The ping of the KeepAliveThread raises: the thread logs a warning.
PingFails ==
    /\ Events < MaxEvents
    /\ hist' = [hist EXCEPT !.fault_log = Append(@, "ping")]
    /\ UNCHANGED << taskVars, confVars, complete, scheduled_tasks, running_tasks,
                    task_result_queue, unfulfilled_counts, add_succeeded,
                    run_succeeded, procs, queue, seen, sched, pc >>

\* A turn of the claim loop in which get_work raises, or in which the
\* add_task call of _get_work (for an id whose class cannot be loaded)
\* raises: neither call is inside a try, nor is _get_work in run().
ClaimWorkFails(op) ==
    /\ pc = "run_loop"
    /\ ~Backpressure
    /\ Events < MaxEvents
    /\ op \in {"get_work", "add_task"}
    /\ pc' = "run_raised"
    /\ hist' = [hist EXCEPT !.fault_log = Append(@, op), !.escaped = "RPCError"]
    /\ UNCHANGED << taskVars, confVars, complete, scheduled_tasks, running_tasks,
                    task_result_queue, unfulfilled_counts, add_succeeded,
                    run_succeeded, procs, queue, seen, sched >>

\* A turn of _handle_next_task in which the add_task call that reports the
\* outcome raises: the new requirements are added, the outcome is off the
\* queue, the task stays in _running_tasks.
HandleNextTaskFails(reversed) ==
    /\ pc \in {"run_loop", "run_handle", "run_drain"}
    /\ pc = "run_loop" => Backpressure
    /\ pc = "run_drain" => LenRunning # 0
    /\ Events < MaxEvents
    /\ LET pq == _purge_children(reversed) IN
       /\ pq.q # << >>
       /\ IsRunning(Head(pq.q).task_id)
       /\ LET a1 == AddAll(Head(pq.q).new_deps,
                           AddState(<< >>, {}, scheduled_tasks, sched,
                                    add_succeeded, hist))
          IN  /\ scheduled_tasks' = a1.scheduled_tasks
              /\ sched' = a1.sched
              /\ add_succeeded' = a1.add_succeeded
       /\ procs' = pq.procs
       /\ task_result_queue' = Tail(pq.q)
    /\ pc' = "run_raised"
    /\ hist' = [hist EXCEPT !.fault_log = Append(@, "add_task"),
                             !.escaped = "RPCError"]
    /\ UNCHANGED << taskVars, confVars, complete, running_tasks,
                    unfulfilled_counts, run_succeeded, queue, seen >>

\* KeyboardInterrupt is raised in _handle_next_task while it waits on the
\* result queue: nothing in _handle_next_task or run() catches it.
Interrupt(reversed) ==
    /\ pc \in {"run_loop", "run_handle", "run_drain"}
    /\ pc = "run_loop" => Backpressure
    /\ pc = "run_drain" => LenRunning # 0
    /\ Events < MaxEvents
    /\ LET pq == _purge_children(reversed) IN
       /\ procs' = pq.procs
       /\ task_result_queue' = pq.q
    /\ pc' = "run_raised"
    /\ hist' = [hist EXCEPT !.n_faults = @ + 1, !.escaped = "KeyboardInterrupt"]
    /\ UNCHANGED << taskVars, confVars, complete, scheduled_tasks, running_tasks,
                    unfulfilled_counts, add_succeeded, run_succeeded, queue,
                    seen, sched >>

(***************************************************************************)
(* The specification of the worker with a scheduler whose operations may   *)
(* fail and a coordinator that may be interrupted: add() of a root, then   *)
(* run(); every run() body returns.                                        *)
(***************************************************************************)
InitFault ==
    /\ worker_processes \in {1, 2}
    /\ deps = [A |-> << "C" >>, B |-> << "C" >>, C |-> << >>]
    /\ external = [t \in Tasks |-> FALSE]
    /\ disabled = [t \in Tasks |-> FALSE]
    /\ complete \in { [A |-> "false", B |-> "false", C |-> c] : c \in {"true", "false"} }
    /\ task_worker_timeout = [t \in Tasks |-> {}]
    /\ run_body = [t \in Tasks |-> "ok"]
    /\ keep_alive = FALSE
    /\ assistant = FALSE
    /\ count_uniques = FALSE
    /\ max_reschedules = 1
    /\ task_limit = {}
    /\ worker_timeout = 0
    /\ retry_external_tasks = FALSE
    /\ WorkerInit

NextFault ==
    \/ hist.n_adds = 0 /\ hist.n_runs = 0 /\ AddCall("A", FALSE)
    \/ \E i \in 1..3 : AddStep(i)
    \/ \E i \in 1..3 : AddStepFails(i)
    \/ RunCall
    \/ RunCallAddWorkerFails
    \/ PingFails
    \/ \E r \in GetWorkAnswers : ClaimWork(r)
    \/ \E op \in {"get_work", "add_task"} : ClaimWorkFails(op)
    \/ \E reversed \in {FALSE} \cup {LenRunning > 1} : HandleNextTask(reversed)
    \/ \E reversed \in {FALSE} \cup {LenRunning > 1} : HandleNextTaskFails(reversed)
    \/ \E reversed \in {FALSE} \cup {LenRunning > 1} : Interrupt(reversed)
    \/ RunReturn
    \/ \E d \in 1..MaxEvents : ExecPut(d)

SpecFault == InitFault /\ [][NextFault]_vars

(***************************************************************************)
(* The specification of the keep-alive policy: a worker of every           *)
(* configuration of keep_alive, assistant and count_uniques, with nothing  *)
(* to run, asks for work and applies _keep_alive to the counts of the      *)
(* answer.                                                                 *)
(***************************************************************************)
KeepAliveAnswers ==
    [form : {"dict"}, task_id : {NoneVal}, n_pending_tasks : 0..MaxPending,
     n_unique_pending : 0..MaxPending, loadable : {TRUE}]

InitKeepAlive ==
    /\ worker_processes = 1
    /\ deps = [t \in Tasks |-> << >>]
    /\ external = [t \in Tasks |-> FALSE]
    /\ disabled = [t \in Tasks |-> FALSE]
    /\ complete = [t \in Tasks |-> "false"]
    /\ task_worker_timeout = [t \in Tasks |-> {}]
    /\ run_body = [t \in Tasks |-> "ok"]
    /\ keep_alive \in BOOLEAN
    /\ assistant \in BOOLEAN
    /\ count_uniques \in BOOLEAN
    /\ max_reschedules = 1
    /\ task_limit = {}
    /\ worker_timeout = 0
    /\ retry_external_tasks = FALSE
    /\ WorkerInit

NextKeepAlive ==
    \/ RunCall
    \/ \E r \in KeepAliveAnswers : ClaimWork(r)
    \/ RunReturn

SpecKeepAlive == InitKeepAlive /\ [][NextKeepAlive]_vars

(***************************************************************************)
(* The specification of add() over tasks that may be disabled: two graphs, *)
(* every outcome true or false of complete(), tasks with and without a     *)
(* run() body, no task limit.                                              *)
(***************************************************************************)
InitDisabled ==
    /\ deps \in GraphsRun
    /\ complete \in [Tasks -> {"true", "false"}]
    /\ external \in [Tasks -> BOOLEAN]
    /\ disabled \in [Tasks -> BOOLEAN]
    /\ task_worker_timeout = [t \in Tasks |-> {}]
    /\ run_body = [t \in Tasks |-> "ok"]
    /\ worker_timeout = 0
    /\ worker_processes = 1
    /\ keep_alive = FALSE
    /\ assistant = FALSE
    /\ count_uniques = FALSE
    /\ max_reschedules = 1
    /\ task_limit = {}
    /\ retry_external_tasks \in BOOLEAN
    /\ WorkerInit

NextDisabled ==
    \/ \E t \in Tasks : AddCall(t, FALSE)
    \/ \E i \in 1..3 : AddStep(i)

SpecDisabled == InitDisabled /\ [][NextDisabled]_vars

(***************************************************************************)
(* The specification of the worker at a scheduler of the old version,      *)
(* which answers get_work with the 2-tuple (n_pending_tasks, task_id):     *)
(* add() of a root, then run(); tasks without dependencies whose run()     *)
(* returns.                                                                *)
(***************************************************************************)
LegacyAnswers ==
    [form : {"tuple"}, task_id : (Tasks \ Running) \cup {NoneVal},
     n_pending_tasks : 0..MaxPending, n_unique_pending : {0}, loadable : {TRUE}]

InitLegacy ==
    /\ worker_processes = 1
    /\ deps = [t \in Tasks |-> << >>]
    /\ external = [t \in Tasks |-> FALSE]
    /\ disabled = [t \in Tasks |-> FALSE]
    /\ complete = [t \in Tasks |-> "false"]
    /\ task_worker_timeout = [t \in Tasks |-> {}]
    /\ run_body \in [Tasks -> {"ok", "fails"}]
    /\ keep_alive = FALSE
    /\ assistant = FALSE
    /\ count_uniques = FALSE
    /\ max_reschedules = 1
    /\ task_limit = {}
    /\ worker_timeout = 0
    /\ retry_external_tasks = FALSE
    /\ WorkerInit

NextLegacy ==
    \/ \E t \in {"A", "B"} : hist.n_runs = 0 /\ AddCall(t, FALSE)
    \/ \E i \in 1..3 : AddStep(i)
    \/ RunCall
    \/ \E r \in LegacyAnswers : ClaimWork(r)
    \/ HandleNextTask(FALSE)
    \/ RunReturn

SpecLegacy == InitLegacy /\ [][NextLegacy]_vars

(***************************************************************************)
(* luigi.contrib.pbs: targets(tasks), which returns the node list of       *)
(* task_graph(tasks); one action per turn of task_graph's while loop.      *)
(***************************************************************************)
\* The mutant of the loop body: the dependencies are not put on the stack.
PushDeps_none(stack, ds) == stack

\* for dep in current.deps(): stack.append(dep)
PushDeps(stack, ds) == stack \o ds

\* list(nodes): the lists that hold every element of the set once.
ListsOf(S) ==
    { l \in UNION { [1..n -> S] : n \in {Cardinality(S)} } : Range(l) = S }

\* targets(tasks) is called: nodes = set(), edges = set(), stack = list(tasks)
PbsTargets(tasks) ==
    /\ pbs.at = "idle"
    /\ pbs' = [PbsInit EXCEPT !.at = "loop", !.tasks = tasks, !.stack = tasks]
    /\ UNCHANGED << deps, external, disabled, task_worker_timeout, run_body,
                    confVars, complete, scheduled_tasks, running_tasks,
                    task_result_queue, unfulfilled_counts, add_succeeded,
                    run_succeeded, procs, queue, seen, sched, pc, hist,
                    fork_lock >>

\* One turn of `while stack`: current = stack.pop(), then the for loop.
PbsStep ==
    /\ pbs.at = "loop"
    /\ pbs.stack # << >>
    /\ LET current == pbs.stack[Len(pbs.stack)]
           rest == SubSeq(pbs.stack, 1, Len(pbs.stack) - 1)
       IN  /\ Len(PushDeps(rest, deps[current])) <= MaxStack
           /\ pbs' = [pbs EXCEPT
                        !.stack = PushDeps(rest, deps[current]),
                        !.nodes = @ \cup {current},
                        !.edges = @ \cup { << current, d >> : d \in Range(deps[current]) }]
    /\ UNCHANGED << deps, external, disabled, task_worker_timeout, run_body,
                    confVars, complete, scheduled_tasks, running_tasks,
                    task_result_queue, unfulfilled_counts, add_succeeded,
                    run_succeeded, procs, queue, seen, sched, pc, hist,
                    fork_lock >>

\* The stack is empty: return (list(nodes), list(edges)); targets returns
\* the first of the two.
PbsReturn(l) ==
    /\ pbs.at = "loop"
    /\ pbs.stack = << >>
    /\ l \in ListsOf(pbs.nodes)
    /\ pbs' = [pbs EXCEPT !.at = "returned", !.result = l]
    /\ UNCHANGED << deps, external, disabled, task_worker_timeout, run_body,
                    confVars, complete, scheduled_tasks, running_tasks,
                    task_result_queue, unfulfilled_counts, add_succeeded,
                    run_succeeded, procs, queue, seen, sched, pc, hist,
                    fork_lock >>

\* Every graph on the tasks (cycles included), and every list of one or two
\* of them as the argument.
GraphsPbs ==
    { g \in [Tasks -> UNION { DepChoices(t) : t \in Tasks }] :
        \A t \in Tasks : g[t] \in DepChoices(t) }

InitPbs ==
    /\ deps \in GraphsPbs
    /\ external = [t \in Tasks |-> FALSE]
    /\ disabled = [t \in Tasks |-> FALSE]
    /\ complete = [t \in Tasks |-> "false"]
    /\ task_worker_timeout = [t \in Tasks |-> {}]
    /\ run_body = [t \in Tasks |-> "ok"]
    /\ worker_processes = 1
    /\ keep_alive = FALSE
    /\ assistant = FALSE
    /\ count_uniques = FALSE
    /\ max_reschedules = 1
    /\ task_limit = {}
    /\ worker_timeout = 0
    /\ retry_external_tasks = FALSE
    /\ WorkerInit

NextPbs ==
    \/ \E tasks \in UNION { [1..n -> Tasks] : n \in 1..MaxTasks } : PbsTargets(tasks)
    \/ PbsStep
    \/ \E l \in ListsOf(pbs.nodes) : PbsReturn(l)

SpecPbs == InitPbs /\ [][NextPbs]_vars

(***************************************************************************)
(* The specification of the worker running a task whose dependencies are   *)
(* complete, incomplete, or have a complete() that raises, inline or as a  *)
(* child; no add(), get_work hands the tasks out.                          *)
(***************************************************************************)
InitDeps ==
    /\ worker_processes \in {1, 2}
    /\ deps = [A |-> << "B", "C" >>, B |-> << >>, C |-> << >>]
    /\ external = [t \in Tasks |-> FALSE]
    /\ disabled = [t \in Tasks |-> FALSE]
    /\ complete \in { [A |-> "false", B |-> b, C |-> c] :
                        b, c \in {"true", "false", "raises"} }
    /\ task_worker_timeout = [t \in Tasks |-> {}]
    /\ run_body \in { [A |-> a, B |-> "ok", C |-> "ok"] : a \in {"ok", "yields"} }
    /\ keep_alive = FALSE
    /\ assistant = FALSE
    /\ count_uniques = FALSE
    /\ max_reschedules = 1
    /\ task_limit = {}
    /\ worker_timeout = 0
    /\ retry_external_tasks = FALSE
    /\ WorkerInit

NextDeps ==
    \/ RunCall
    \/ \E r \in GetWorkAnswers : ClaimWork(r)
    \/ \E reversed \in {FALSE} \cup {LenRunning > 1} : HandleNextTask(reversed)
    \/ RunReturn
    \/ \E d \in 1..MaxEvents : ExecPut(d)

SpecDeps == InitDeps /\ [][NextDeps]_vars

(***************************************************************************)
(* The specification of the worker running tasks whose run() yields a      *)
(* batch once or twice, the batch complete or not, inline or as children   *)
(* that may die; no add(), get_work hands the tasks out.                   *)
(***************************************************************************)
InitInterim ==
    /\ worker_processes \in {1, 2}
    /\ deps = [t \in Tasks |-> << >>]
    /\ external = [t \in Tasks |-> FALSE]
    /\ disabled = [t \in Tasks |-> FALSE]
    /\ complete \in { [A |-> "false", B |-> "false", C |-> c] : c \in {"true", "false"} }
    /\ task_worker_timeout = [t \in Tasks |-> {}]
    /\ run_body \in { [A |-> a, B |-> "ok", C |-> "ok"] : a \in {"yields", "yields2"} }
    /\ keep_alive = FALSE
    /\ assistant = FALSE
    /\ count_uniques = FALSE
    /\ max_reschedules = 1
    /\ task_limit = {}
    /\ worker_timeout = 0
    /\ retry_external_tasks = FALSE
    /\ WorkerInit

NextInterim ==
    \/ RunCall
    \/ \E r \in GetWorkAnswers : ClaimWork(r)
    \/ \E reversed \in {FALSE} \cup {LenRunning > 1} : HandleNextTask(reversed)
    \/ RunReturn
    \/ \E d \in 1..MaxEvents : ExecPut(d)
    \/ \E d \in 1..MaxEvents : ExecDie(d)

SpecInterim == InitInterim /\ [][NextInterim]_vars

(***************************************************************************)
(* The fork lock: the KeepAliveThread's loop and the locked part of        *)
(* _run_task, one step per statement.                                      *)
(***************************************************************************)
\* fork_lock.release()
ForkRelease_kept(holder) == holder

ForkRelease(holder) == "none"

\* What the steps of the two threads leave alone.
UnchangedByPing ==
    UNCHANGED << deps, external, disabled, task_worker_timeout, run_body, pbs,
                 confVars, complete, scheduled_tasks, running_tasks,
                 task_result_queue, unfulfilled_counts, add_succeeded,
                 run_succeeded, procs, queue, seen, sched, pc, hist >>

\* KeepAliveThread.run: fork_lock.acquire() returns.
PingAcquire ==
    /\ fork_lock.ping_at = "wait"
    /\ fork_lock.holder = "none"
    /\ fork_lock' = [fork_lock EXCEPT !.holder = "ping", !.ping_at = "locked"]
    /\ UnchangedByPing

\* scheduler.ping(worker=worker_id) returns, or raises and the except
\* clause logs a warning.
PingCall(ok) ==
    /\ fork_lock.ping_at = "locked"
    /\ fork_lock' = [fork_lock EXCEPT
                       !.ping_at = IF ok THEN "pinged" ELSE "warned",
                       !.pings = @ \cup {ok}]
    /\ UnchangedByPing

\* finally: fork_lock.release(), and the loop waits again.
PingRelease ==
    /\ fork_lock.ping_at \in {"pinged", "warned"}
    /\ fork_lock' = [fork_lock EXCEPT !.holder = ForkRelease(@),
                                      !.ping_at = "wait"]
    /\ UnchangedByPing

\* The claim loop, with the answer r of get_work, gets to _run_task.
Dispatches(r) == ~_get_work(r).raised /\ _get_work(r).task_id # NoneVal

\* The coordinator is not inside the locked part of _run_task.
CoordFree == fork_lock.start_at = "idle"

\* _run_task with worker_processes > 1: fork_lock.acquire() returns.
StartAcquire(r) ==
    /\ pc = "run_loop"
    /\ ~Backpressure
    /\ worker_processes > 1
    /\ Events < MaxEvents
    /\ Dispatches(r)
    /\ CoordFree
    /\ fork_lock.holder = "none"
    /\ fork_lock' = [fork_lock EXCEPT !.holder = "start", !.start_at = "locked",
                                      !.answer = r, !.base = hist.n_dispatch]
    /\ UnchangedByPing

\* p.start() returns: the child runs.
StartChild ==
    /\ fork_lock.start_at = "locked"
    /\ hist.n_dispatch = fork_lock.base
    /\ ClaimWork(fork_lock.answer)

\* p.start() raises (the fork fails): the TaskProcess is in _running_tasks
\* and was never started.
StartFails ==
    /\ fork_lock.start_at = "locked"
    /\ hist.n_dispatch = fork_lock.base
    /\ LET g == _get_work(fork_lock.answer)
           plan == IF external[g.task_id] THEN ExternalTaskProcess_run(g.task_id)
                   ELSE TaskProcess_run(g.task_id)
           p == [task_id |-> g.task_id, alive |-> FALSE, exitcode |-> NoneVal,
                 timeout_time |-> TimeoutTime(g.task_id), terminated |-> FALSE,
                 todo |-> << >>, completes |-> FALSE, ran |-> FALSE,
                 out |-> << >>, events |-> << >>]
       IN  /\ scheduled_tasks' = g.scheduled_tasks
           /\ sched' = g.sched
           /\ procs' = Append(procs, p)
           /\ running_tasks' = [running_tasks EXCEPT ![g.task_id] = Len(procs) + 1]
    /\ hist' = [hist EXCEPT !.fault_log = Append(@, "start")]
    /\ fork_lock' = [fork_lock EXCEPT !.start_at = "failed"]
    /\ UNCHANGED << deps, external, disabled, task_worker_timeout, run_body, pbs,
                    confVars, complete, task_result_queue, unfulfilled_counts,
                    add_succeeded, run_succeeded, queue, seen, pc >>

\* finally: fork_lock.release(); the error of p.start() then leaves
\* _run_task and run().
StartRelease ==
    /\ \/ fork_lock.start_at = "locked" /\ hist.n_dispatch > fork_lock.base
       \/ fork_lock.start_at = "failed"
    /\ fork_lock' = [fork_lock EXCEPT !.holder = ForkRelease(@),
                                      !.start_at = "idle", !.answer = NoneVal,
                                      !.base = 0]
    /\ pc' = IF fork_lock.start_at = "failed" THEN "run_raised" ELSE pc
    /\ hist' = IF fork_lock.start_at = "failed"
               THEN [hist EXCEPT !.escaped = "OSError"] ELSE hist
    /\ UNCHANGED << deps, external, disabled, task_worker_timeout, run_body, pbs,
                    confVars, complete, scheduled_tasks, running_tasks,
                    task_result_queue, unfulfilled_counts, add_succeeded,
                    run_succeeded, procs, queue, seen, sched >>

(***************************************************************************)
(* The specification of the worker with its KeepAliveThread: no add(),     *)
(* get_work hands the tasks out, run() dispatches them inline or, under    *)
(* the fork lock, as children.                                             *)
(***************************************************************************)
InitFork ==
    /\ worker_processes \in {1, 2}
    /\ deps = [t \in Tasks |-> << >>]
    /\ external = [t \in Tasks |-> FALSE]
    /\ disabled = [t \in Tasks |-> FALSE]
    /\ complete = [t \in Tasks |-> "false"]
    /\ task_worker_timeout = [t \in Tasks |-> {}]
    /\ run_body = [t \in Tasks |-> "ok"]
    /\ keep_alive = FALSE
    /\ assistant = FALSE
    /\ count_uniques = FALSE
    /\ max_reschedules = 1
    /\ task_limit = {}
    /\ worker_timeout = 0
    /\ retry_external_tasks = FALSE
    /\ WorkerInit

NextFork ==
    \/ RunCall
    \/ \E r \in GetWorkAnswers :
          /\ CoordFree
          /\ worker_processes > 1 => ~Dispatches(r)
          /\ ClaimWork(r)
    \/ \E r \in GetWorkAnswers : StartAcquire(r)
    \/ StartChild
    \/ StartFails
    \/ StartRelease
    \/ \E reversed \in {FALSE} \cup {LenRunning > 1} :
          CoordFree /\ HandleNextTask(reversed)
    \/ CoordFree /\ RunReturn
    \/ \E d \in 1..MaxEvents : ExecPut(d)
    \/ PingAcquire
    \/ \E ok \in BOOLEAN : PingCall(ok)
    \/ PingRelease

SpecFork == InitFork /\ [][NextFork]_vars

(***************************************************************************)
(* The specification of the worker running external tasks (run ==          *)
(* NotImplemented), whose complete() returns true or false or raises,      *)
(* inline or as children; no add(), get_work hands the tasks out.          *)
(***************************************************************************)
InitExternal ==
    /\ worker_processes \in {1, 2}
    /\ deps = [t \in Tasks |-> << >>]
    /\ external = [A |-> TRUE, B |-> TRUE, C |-> FALSE]
    /\ disabled = [t \in Tasks |-> FALSE]
    /\ complete \in { [A |-> a, B |-> "true", C |-> "false"] :
                         a \in {"true", "false", "raises"} }
    /\ task_worker_timeout = [t \in Tasks |-> {}]
    /\ run_body = [t \in Tasks |-> "ok"]
    /\ keep_alive = FALSE
    /\ assistant = FALSE
    /\ count_uniques = FALSE
    /\ max_reschedules = 1
    /\ task_limit = {}
    /\ worker_timeout = 0
    /\ retry_external_tasks = FALSE
    /\ WorkerInit

NextExternal ==
    \/ RunCall
    \/ \E r \in GetWorkAnswers : ClaimWork(r)
    \/ \E reversed \in {FALSE} \cup {LenRunning > 1} : HandleNextTask(reversed)
    \/ RunReturn
    \/ \E d \in 1..MaxEvents : ExecPut(d)

SpecExternal == InitExternal /\ [][NextExternal]_vars

(***************************************************************************)
(* Reachability in the dependency graph.                                   *)
(***************************************************************************)
TaskDeps(t) == Range(deps[t]) \cap Tasks

RECURSIVE Closure(_, _, _)
Closure(S, follow, n) ==
    IF n = 0 THEN S
    ELSE Closure(S \cup UNION { TaskDeps(t) : t \in S \cap follow }, follow, n - 1)

\* Everything reachable from the roots by following deps().
ReachableAll(roots) == Closure(roots, Tasks, Cardinality(Tasks))

\* _add follows deps() only out of a task found incomplete that has a run() body.
Traversed == { t \in Tasks : complete[t] = "false" /\ ~external[t] }

ReachableTraversed(roots) == Closure(roots, Traversed, Cardinality(Tasks))

\* ... and registers a reached task unless its complete() check raised.
Registrable(roots) == { t \in ReachableTraversed(roots) : complete[t] # "raises" }

(***************************************************************************)
(* C6 (as stated in the specification): after any sequence of add() calls  *)
(* the registered ids are exactly the ids reachable from the roots through *)
(* deps(), cut off at task_limit entries when a limit is set.              *)
(***************************************************************************)
C6_AsStated ==
    pc = "add_returned" =>
        /\ scheduled_tasks \subseteq ReachableAll(hist.roots)
        /\ task_limit = {} => scheduled_tasks = ReachableAll(hist.roots)
        /\ \A limit \in task_limit :
              \/ scheduled_tasks = ReachableAll(hist.roots)
              \/ Cardinality(scheduled_tasks) = limit

(***************************************************************************)
(* C6 (amended): after any sequence of add() calls the registered ids are  *)
(* among the ids reachable from the roots by following deps() only out of  *)
(* tasks found incomplete that have a run() body, without the tasks whose  *)
(* complete() check raised; they are all of them unless an invalid         *)
(* dependency aborted a traversal or the task limit was reached, and with  *)
(* a task limit there are never more than task_limit of them.              *)
(***************************************************************************)
C6_RegisteredIsTraversedReach ==
    pc = "add_returned" =>
        /\ scheduled_tasks \subseteq Registrable(hist.roots)
        /\ (task_limit = {} /\ ~hist.ever_aborted)
              => scheduled_tasks = Registrable(hist.roots)
        /\ \A limit \in task_limit :
              /\ Cardinality(scheduled_tasks) <= limit
              /\ (Cardinality(scheduled_tasks) < limit /\ ~hist.ever_aborted)
                    => scheduled_tasks = Registrable(hist.roots)

\* C6's case: a complete task with a dependency was added, and add()
\* registered the task without its dependency.
C6_Witness ==
    /\ pc = "add_returned"
    /\ \E t \in hist.roots :
          /\ complete[t] = "true"
          /\ TaskDeps(t) # {}
          /\ t \in scheduled_tasks
          /\ TaskDeps(t) \cap scheduled_tasks = {}
    /\ \E t \in hist.roots : complete[t] = "false" /\ TaskDeps(t) \cap scheduled_tasks # {}

(***************************************************************************)
(* C7: add() terminates on every graph, cycles included: every turn of its *)
(* loop takes one from (queue length + tasks not yet seen), within one     *)
(* add() call no id is handed to _add twice or registered twice, and when  *)
(* add() returns without cutoff or abort every id it saw whose complete()  *)
(* check did not raise was registered exactly once.                        *)
(***************************************************************************)
AddMeasure == Len(queue) + Cardinality(Tasks \ seen)

C7_AddTerminatesOncePerId ==
    /\ [](\A t \in Tasks : hist.n_add[t] <= 1 /\ hist.n_reg[t] <= 1)
    /\ []((pc = "add_returned" /\ task_limit = {} /\ ~hist.aborted)
            => \A t \in seen : hist.n_add[t] = 1
                               /\ (complete[t] # "raises" => hist.n_reg[t] = 1))
    /\ [][(pc \in {"add", "add_mp"}) => (AddMeasure' < AddMeasure)]_vars

\* C7's case: add() returned on the cycle A requires B requires A, both
\* incomplete, and both were registered.
C7_Witness ==
    /\ pc = "add_returned"
    /\ "B" \in TaskDeps("A") /\ "A" \in TaskDeps("B")
    /\ {"A", "B"} \subseteq Traversed
    /\ hist.n_reg["A"] = 1 /\ hist.n_reg["B"] = 1

(***************************************************************************)
(* C8 (as stated): add() returns True only if every task the traversal     *)
(* reached was registered with the scheduler.                              *)
(***************************************************************************)
C8_TrueOnlyIfAllRegistered ==
    (pc = "add_returned" /\ add_succeeded) => \A t \in seen : hist.n_reg[t] = 1

(***************************************************************************)
(* C1: every dispatch of a task by run() gets exactly one terminal report  *)
(* (an add_task call by _handle_next_task with a status other than         *)
(* RUNNING): at any time the dispatches of an id are its terminal reports  *)
(* plus one if it is in _running_tasks, so no dispatch ever has two, and   *)
(* when run() has returned no dispatch is without its report.              *)
(***************************************************************************)
C1_OneTerminalPerDispatch ==
    /\ \A t \in Tasks :
          hist.disp[t] = hist.term[t] + (IF running_tasks[t] # 0 THEN 1 ELSE 0)
    /\ pc = "run_returned" => \A t \in Tasks : hist.disp[t] = hist.term[t]

\* C1's case: a child died after its interim report, the reaper made a
\* FAILED outcome for it more than once, one of them was reported, run()
\* returned, and the other is still on the queue.
C1_Witness ==
    /\ pc = "run_returned"
    /\ hist.n_faults > 0
    /\ \E i \in 1..Len(task_result_queue) :
          /\ task_result_queue[i].status = FAILED
          /\ hist.term[task_result_queue[i].task_id] = 1
          /\ hist.disp[task_result_queue[i].task_id] = 1

(***************************************************************************)
(* C2: with worker_processes >= 1, _running_tasks never has more than      *)
(* worker_processes entries.                                               *)
(***************************************************************************)
C2_RunningWithinProcesses == LenRunning <= worker_processes

\* C2's case: two worker processes, two tasks running, and run() in its
\* backpressure loop.
C2_Witness ==
    /\ pc = "run_loop"
    /\ worker_processes = 2
    /\ Cardinality(Running) = 2

(***************************************************************************)
(* C3: whenever run() returns, _running_tasks is empty.                    *)
(***************************************************************************)
C3_EmptyWhenReturned == pc = "run_returned" => Running = {}

\* C3's case: run() returned after two tasks ran at the same time as
\* children and one of the children died or was terminated.
C3_Witness ==
    /\ pc = "run_returned"
    /\ worker_processes = 2
    /\ hist.n_dispatch >= 2
    /\ hist.n_faults >= 1
    /\ Running = {}

(***************************************************************************)
(* C4: the value run() returns is the conjunction, over the terminal       *)
(* outcomes handled in that run, of "status is DONE or SUSPENDED", and it  *)
(* is false if a get_work answer of that run named a task whose class      *)
(* could not be resolved.                                                  *)
(***************************************************************************)
C4_ReturnIsConjunction == pc = "run_returned" => run_succeeded = hist.all_ok

\* C4's case: the first run() returned true after a terminal SUSPENDED
\* outcome was handled.
C4_Witness ==
    /\ pc = "run_returned"
    /\ hist.n_runs = 1
    /\ run_succeeded
    /\ \E i \in 1..Len(hist.term_log) : hist.term_log[i][2] = SUSPENDED

(***************************************************************************)
(* C5: in the chain scenario the terminal reports reach the scheduler in   *)
(* the order of the chain, each with status DONE: what was reported so far *)
(* is always a prefix of (leaf, DONE), (middle, DONE), (top, DONE), and    *)
(* when run() returns after the top of the chain was added it is all       *)
(* three, and run() returns true.                                          *)
(***************************************************************************)
ChainExpected == << << Leaf, DONE >>, << Mid, DONE >>, << Top, DONE >> >>

C5_ChainOrder ==
    /\ Len(hist.term_log) <= 3
    /\ hist.term_log = SubSeq(ChainExpected, 1, Len(hist.term_log))
    /\ (pc = "run_returned" /\ Top \in hist.roots)
          => (hist.term_log = ChainExpected /\ run_succeeded)

\* C5's case: one add() of the top of the chain, one run(), which returned
\* after the three reports.
C5_Witness ==
    /\ pc = "run_returned"
    /\ hist.n_adds = 1 /\ hist.n_runs = 1
    /\ hist.roots = {Top}
    /\ Len(hist.term_log) = 3
    /\ run_succeeded

(***************************************************************************)
(* C9 (as stated in the specification): when a terminal outcome with a     *)
(* non-empty missing list is handled, the count of every missing id is     *)
(* bumped, _handle_next_task returns normally, and the task is re-added    *)
(* through add(task) exactly if none of those counts is over               *)
(* max_reschedules.                                                        *)
(***************************************************************************)
C9_RescheduleMissing ==
    [][hist'.n_missing > hist.n_missing =>
         LET missing == hist'.last.missing IN
         /\ \A t \in Tasks :
               unfulfilled_counts'[t] = unfulfilled_counts[t] + Occurrences(missing, t)
         /\ pc' # "run_raised"
         /\ hist'.last.readded
               = (\A t \in Range(missing) : unfulfilled_counts'[t] <= max_reschedules)]_vars

(***************************************************************************)
(* C10 (as stated in the specification): in every reachable state, for     *)
(* every task id, unfulfilled_counts[id] <= max_reschedules + 1.           *)
(***************************************************************************)
C10_CountCeiling ==
    \A t \in Tasks : unfulfilled_counts[t] <= max_reschedules + 1


(***************************************************************************)
(* C11 (as stated in the specification): a dispatched task with a positive *)
(* effective timeout whose run() is still executing after the deadline is  *)
(* terminated, reported (T, FAILED, timed out and was terminated) and      *)
(* removed from _running_tasks, with inline executors as with children; so *)
(* when run() has returned this has happened for every such dispatch.      *)
(***************************************************************************)
TimedOutExpl == "timed out and was terminated"

C11_TimedOutReported ==
    pc = "run_returned" =>
        \A d \in 1..Len(procs) :
            LET t == procs[d].task_id IN
            (run_body[t] = "slow" /\ EffectiveTimeout(t) > 0
             /\ procs[d].timeout_time = "passed")
                => /\ procs[d].terminated
                   /\ running_tasks[t] = 0
                   /\ \E i \in 1..Len(hist.term_log) :
                         /\ hist.term_log[i] = << t, FAILED >>
                         /\ hist.term_expl[i] = TimedOutExpl

(***************************************************************************)
(* C12 (as stated in the specification): the reaper terminates an executor *)
(* only if its effective timeout is positive, its deadline has passed and  *)
(* it is alive; an executor whose effective timeout is 0 is never          *)
(* terminated and never gets a timed-out outcome.                          *)
(***************************************************************************)
C12_TerminateOnlyPositive ==
    /\ [][\A d \in 1..Len(procs) :
            (procs'[d].terminated /\ ~procs[d].terminated)
                => /\ EffectiveTimeout(procs[d].task_id) > 0
                   /\ procs[d].timeout_time = "passed"
                   /\ procs[d].alive]_vars
    /\ [](/\ \A d \in 1..Len(procs) :
               EffectiveTimeout(procs[d].task_id) = 0 => ~procs[d].terminated
          /\ \A i \in 1..Len(task_result_queue) :
               task_result_queue[i].expl = TimedOutExpl
                   => EffectiveTimeout(task_result_queue[i].task_id) # 0)


(***************************************************************************)
(* C13: a task whose run() yields a batch with an incomplete task in it    *)
(* puts the one outcome (T, SUSPENDED, new_deps = batch) and stops without *)
(* writing its output; when the coordinator handles that outcome, every id *)
(* of the batch is registered (by add()) before the scheduler gets the     *)
(* report (T, SUSPENDED, new_deps = batch), and T's slot is freed; a T     *)
(* dispatched when the whole batch is complete ends with (T, DONE).        *)
(***************************************************************************)
\* What the executor made by the last _run_task puts on the queue.
Emitted ==
    IF worker_processes > 1 THEN procs'[Len(procs')].todo
    ELSE SubSeq(task_result_queue', Len(task_result_queue) + 1,
                Len(task_result_queue'))

\* run() of t is a generator and the executor gets as far as calling it.
YieldsAtRun(t) ==
    /\ ~external[t] /\ run_body[t] = "yields"
    /\ \A i \in 1..Len(deps[t]) : deps[t][i] \in Tasks /\ complete[deps[t][i]] = "true"

C13_SuspendedFlow ==
    [][/\ (hist'.n_dispatch = hist.n_dispatch + 1
            /\ YieldsAtRun(procs'[Len(procs')].task_id))
           => LET t == procs'[Len(procs')].task_id IN
              /\ (\E i \in 1..Len(YieldBatch) : complete[YieldBatch[i]] = "false")
                    => /\ Emitted = << Outcome(t, SUSPENDED, "", << >>, YieldBatch) >>
                       /\ complete' = complete
                       /\ ~procs'[Len(procs')].completes
              /\ (\A i \in 1..Len(YieldBatch) : complete[YieldBatch[i]] = "true")
                    => /\ Emitted # << >>
                       /\ Emitted[Len(Emitted)].task_id = t
                       /\ Emitted[Len(Emitted)].status = DONE
       /\ (Len(hist'.term_log) = Len(hist.term_log) + 1
            /\ hist'.term_log[Len(hist'.term_log)][2] = SUSPENDED)
           => LET t == hist'.term_log[Len(hist'.term_log)][1] IN
              /\ sched'[t].status = SUSPENDED
              /\ sched'[t].call.new_deps = YieldBatch
              /\ sched'[t].call.new_known
              /\ Range(YieldBatch) \subseteq scheduled_tasks'
              /\ running_tasks[t] # 0 /\ running_tasks'[t] = 0]_vars

\* T, run with nothing registered by add(), was reported SUSPENDED and,
\* dispatched again, DONE.
C13_Witness ==
    \E t \in Tasks : \E i, j \in 1..Len(hist.term_log) :
        /\ i < j
        /\ hist.term_log[i] = << t, SUSPENDED >>
        /\ hist.term_log[j] = << t, DONE >>
        /\ hist.n_adds = 0
        /\ sched[t].call.new_deps = << >>


(***************************************************************************)
(* C14: a turn of the claim loop in which get_work names an id that is not *)
(* in _scheduled_tasks and whose class cannot be loaded marks the id       *)
(* FAILED (runnable = False) at the scheduler and stays in the claim loop: *)
(* run() neither breaks out of the loop nor raises in that turn.           *)
(***************************************************************************)
C14_UnresolvedContinues ==
    [][(/\ pc = "run_loop"
        /\ \E t \in Tasks : /\ sched'[t] # sched[t]
                            /\ sched'[t].status = FAILED
                            /\ sched'[t].call.runnable = "False")
          => pc' \in {"run_loop", "run_handle"}]_vars


(***************************************************************************)
(* C15: a step in which a scheduler operation (add_task, get_work,         *)
(* add_worker, ping) fails with a transport error leaves neither add() nor *)
(* run() with an exception, and does not end add()'s traversal.            *)
(***************************************************************************)
C15_TransportContained ==
    [][(Len(hist'.fault_log) = Len(hist.fault_log) + 1)
          => /\ pc' \notin {"run_raised", "add_raised"}
             /\ pc \in {"add", "add_mp"} => ~hist'.aborted]_vars

(***************************************************************************)
(* C16: when run() was left with the KeyboardInterrupt raised out of       *)
(* _handle_next_task, _running_tasks is empty.                             *)
(***************************************************************************)
C16_InterruptDrains ==
    (pc = "run_raised" /\ hist.escaped = "KeyboardInterrupt") => Running = {}


(***************************************************************************)
(* C17: whatever keep_alive, assistant, count_uniques and the two counts   *)
(* are, _keep_alive returns (it does not raise), and what it returns is    *)
(* truthy exactly if keep_alive and (assistant or (n_pending_tasks > 0 and *)
(* (not count_uniques or n_unique_pending > 0))).                          *)
(***************************************************************************)
KeepAliveExpected(n_pending_tasks, n_unique_pending) ==
    keep_alive /\ (assistant \/ (n_pending_tasks > 0
                                  /\ (~count_uniques \/ n_unique_pending > 0)))

C17_KeepAlivePolicy ==
    hist.ka.called
        => hist.ka.result =
              IF KeepAliveExpected(hist.ka.n_pending_tasks, hist.ka.n_unique_pending)
              THEN "true" ELSE "false"


(***************************************************************************)
(* C18: run() leaves its claim loop only by the break, taken when get_work *)
(* gave no task, _running_tasks is empty and the keep-alive policy is      *)
(* false; whenever the policy is evaluated, run() stays in the loop if it  *)
(* is true and leaves it at once if it is false; the loop is never left    *)
(* while a task is in _running_tasks.                                      *)
(***************************************************************************)
InClaimLoop(p) == p \in {"run_loop", "run_handle"}

C18_LoopLeftExactlyWhenIdle ==
    [][/\ (InClaimLoop(pc) /\ ~InClaimLoop(pc'))
            => /\ pc' = "run_drain"
               /\ Running = {}
               /\ hist'.ka.called
               /\ ~KeepAliveExpected(hist'.ka.n_pending_tasks,
                                     hist'.ka.n_unique_pending)
       /\ (hist'.ka # hist.ka)
            => pc' = IF KeepAliveExpected(hist'.ka.n_pending_tasks,
                                          hist'.ka.n_unique_pending)
                     THEN "run_loop" ELSE "run_drain"]_vars


(***************************************************************************)
(* C19: with a task limit set, a turn of add()'s loop that hands _add a    *)
(* task while _scheduled_tasks has task_limit entries or more registers    *)
(* nothing and enqueues none of the task's dependencies; _scheduled_tasks  *)
(* never has more than task_limit entries; and a first add() under         *)
(* task_limit = 1 registers no task but its root.                          *)
(***************************************************************************)
C19_TaskLimit ==
    /\ [][\A t \in Tasks :
            (/\ hist'.n_add[t] = hist.n_add[t] + 1
             /\ \E limit \in task_limit : Cardinality(scheduled_tasks) >= limit)
                => /\ scheduled_tasks' = scheduled_tasks
                   /\ sched' = sched
                   /\ seen' = seen
                   /\ Len(queue') = Len(queue) - 1]_vars
    /\ [](\A limit \in task_limit : Cardinality(scheduled_tasks) <= limit)
    /\ []((task_limit = {1} /\ hist.n_adds = 1) => scheduled_tasks \subseteq hist.roots)

\* add() returned after it had skipped a dependency of the root that was at
\* the limit of one task.
C19_Witness ==
    /\ pc = "add_returned"
    /\ task_limit = {1}
    /\ scheduled_tasks = hist.roots
    /\ hist.skipped # {}
    /\ \E t \in hist.roots : TaskDeps(t) \cap hist.skipped # {}


C21_DisabledRegisteredDisabled ==
    [][\A t \in Tasks :
          (hist'.n_reg[t] = hist.n_reg[t] + 1 /\ disabled[t])
             => sched'[t].status = DISABLED]_vars

\* add() returned with a complete disabled task and an incomplete disabled
\* task without a run() body both registered as DISABLED.
C21_Witness ==
    /\ pc = "add_returned"
    /\ \E t, u \in scheduled_tasks :
          /\ disabled[t] /\ complete[t] = "true" /\ sched[t].status = DISABLED
          /\ disabled[u] /\ complete[u] = "false" /\ external[u]
          /\ sched[u].status = DISABLED


(***************************************************************************)
(* C22: for every 2-tuple (n_pending_tasks, task_id) a scheduler may       *)
(* answer with (task_id None, scheduled by this worker, or not), _get_work *)
(* does what it does for the record with the same task id and count and    *)
(* n_unique_pending = 0: it returns that task id, that count and 0 and     *)
(* does not raise, so no turn of the claim loop leaves run() with an       *)
(* exception.                                                              *)
(***************************************************************************)
AsRecord(r) == [r EXCEPT !.form = "dict", !.n_unique_pending = 0]

C22_TupleLikeRecord ==
    /\ []((pc = "run_loop" /\ ~Backpressure) => \A r \in LegacyAnswers :
            /\ ~_get_work(r).raised
            /\ _get_work(r) = _get_work(AsRecord(r))
            /\ _get_work(r).task_id = r.task_id
            /\ _get_work(r).n_pending_tasks = r.n_pending_tasks
            /\ _get_work(r).n_unique_pending = 0)
    /\ [][pc = "run_loop" => pc' # "run_raised"]_vars


(***************************************************************************)
(* C23: the list targets(tasks) returns holds exactly the ids reachable    *)
(* from the given tasks by following deps(), the given tasks included,     *)
(* and each of them once.                                                  *)
(***************************************************************************)
C23_TargetsAreReachable ==
    pbs.at = "returned"
        => /\ Range(pbs.result) = ReachableAll(Range(pbs.tasks))
           /\ Len(pbs.result) = Cardinality(Range(pbs.result))

\* targets returned for two given tasks of which one is reachable from the
\* other, in a graph where a third is reached along two paths.
C23_Witness ==
    /\ pbs.at = "returned"
    /\ Len(pbs.tasks) = 2
    /\ pbs.tasks[2] \in Range(deps[pbs.tasks[1]])
    /\ \E t \in Tasks : /\ t \in Range(deps[pbs.tasks[1]])
                        /\ t \in Range(deps[pbs.tasks[2]])
    /\ Len(pbs.result) = 3


(***************************************************************************)
(* C24, as stated: the executor of an ordinary task dispatched while a     *)
(* task of its deps() has complete() false does not invoke run() and       *)
(* triggers no START; it puts exactly one outcome, FAILED, whose missing   *)
(* list is exactly the ids of the dependencies with complete() false.      *)
(***************************************************************************)
\* The executor made in this step.
Dispatched == procs'[Len(procs')]

DispatchedWithIncomplete ==
    /\ hist'.n_dispatch = hist.n_dispatch + 1
    /\ ~external[Dispatched.task_id]
    /\ \E i \in 1..Len(deps[Dispatched.task_id]) :
          complete[deps[Dispatched.task_id][i]] = "false"

IncompleteDeps(t) == SelectSeq(deps[t], LAMBDA d : complete[d] = "false")

C24_AsStated ==
    [][DispatchedWithIncomplete
          => /\ ~Dispatched.ran
             /\ "START" \notin Range(Dispatched.events)
             /\ Len(Dispatched.out) = 1
             /\ Dispatched.out[1].status = FAILED
             /\ Dispatched.out[1].missing = IncompleteDeps(Dispatched.task_id)]_vars

(***************************************************************************)
(* C24, amended: ... the missing list is exactly the ids of the            *)
(* dependencies with complete() false if complete() of every dependency    *)
(* returned, and empty if complete() of one of them raised.                *)
(***************************************************************************)
C24_FailsWithoutRun ==
    [][DispatchedWithIncomplete
          => /\ ~Dispatched.ran
             /\ "START" \notin Range(Dispatched.events)
             /\ Len(Dispatched.out) = 1
             /\ Dispatched.out[1].status = FAILED
             /\ Dispatched.out[1].missing =
                   IF \E i \in 1..Len(deps[Dispatched.task_id]) :
                         complete[deps[Dispatched.task_id][i]] = "raises"
                   THEN << >>
                   ELSE IncompleteDeps(Dispatched.task_id)]_vars

\* The report of a task dispatched with one dependency complete and the
\* other not was handled: FAILED, with the incomplete one as missing.
C24_Witness ==
    /\ hist.term_log = << << "A", FAILED >> >>
    /\ complete["B"] = "true" /\ complete["C"] = "false"
    /\ procs[1].out[1].missing = << "C" >>
    /\ ~procs[1].ran
    /\ hist.last.missing = << "C" >>


(***************************************************************************)
(* C25: a step in which _handle_next_task reports an outcome with status   *)
(* RUNNING leaves _running_tasks as it is; an entry is removed from        *)
(* _running_tasks only in a step that reports an outcome for that task id  *)
(* with another status.                                                    *)
(***************************************************************************)
C25_InterimKeepsSlot ==
    [][/\ (hist'.n_interim # hist.n_interim) => running_tasks' = running_tasks
       /\ \A t \in Tasks :
            (running_tasks[t] # 0 /\ running_tasks'[t] # running_tasks[t])
               => /\ running_tasks'[t] = 0
                  /\ hist'.n_interim = hist.n_interim
                  /\ Len(hist'.term_log) = Len(hist.term_log) + 1
                  /\ hist'.term_log[Len(hist'.term_log)][1] = t
                  /\ hist'.term_log[Len(hist'.term_log)][2] # RUNNING
                  /\ sched'[t].status # RUNNING]_vars

\* Two RUNNING outcomes of one dispatch were reported and the task is still
\* in _running_tasks.
C25_Witness ==
    /\ hist.n_interim = 2
    /\ hist.n_dispatch = 1
    /\ running_tasks["A"] # 0
    /\ sched["A"].status = RUNNING


(***************************************************************************)
(* C26: when _handle_next_task applies a terminal outcome to the entry of  *)
(* a task in _running_tasks, the executor registered there is the origin   *)
(* of an outcome: it has put one on the queue, or it is a child that died  *)
(* with a nonzero exit code or that the reaper terminated.  An outcome     *)
(* left from an earlier dispatch of the id never ends a later dispatch.    *)
(***************************************************************************)
\* Executor p has put an outcome on the queue (an inline one has put all).
HasPut(p) == Len(p.todo) < Len(p.out)

C26_OutcomeOfCurrentExecutor ==
    [][\A t \in Tasks :
          (running_tasks[t] # 0 /\ running_tasks'[t] = 0)
             => \/ HasPut(procs[running_tasks[t]])
                \/ /\ ~procs[running_tasks[t]].alive
                   /\ procs[running_tasks[t]].exitcode = "nonzero"
                \/ procs'[running_tasks[t]].terminated]_vars


(***************************************************************************)
(* C27: with worker_processes > 1 the ping of the KeepAliveThread and the  *)
(* start of an executor never overlap: a ping is made and a child is       *)
(* started only by the thread that holds the fork lock, the two threads    *)
(* are never both between acquire and release, and each has released the   *)
(* lock when it is past its release, also when the ping or the start       *)
(* failed.                                                                 *)
(***************************************************************************)
\* The thread is between its fork_lock.acquire() and its release().
PingLocked == fork_lock.ping_at \in {"locked", "pinged", "warned"}
StartLocked == fork_lock.start_at \in {"locked", "failed"}

C27_ForkLockSerialises ==
    /\ [](worker_processes > 1
            => /\ ~(PingLocked /\ StartLocked)
               /\ (PingLocked <=> (fork_lock.holder = "ping"))
               /\ (StartLocked <=> (fork_lock.holder = "start")))
    /\ [][(worker_processes > 1)
            => /\ (fork_lock'.pings # fork_lock.pings
                     \/ (fork_lock.ping_at = "locked"
                           /\ fork_lock'.ping_at \in {"pinged", "warned"}))
                    => (fork_lock.holder = "ping" /\ fork_lock'.holder = "ping")
               /\ (hist'.n_dispatch # hist.n_dispatch
                     \/ (fork_lock.start_at = "locked"
                           /\ fork_lock'.start_at = "failed"))
                    => (fork_lock.holder = "start"
                          /\ fork_lock'.holder = "start")]_vars

\* With two processes: a child was started and the lock released after a
\* start that failed, while a ping failed, and the KeepAliveThread holds
\* the lock again.
C27_Witness ==
    /\ worker_processes > 1
    /\ hist.n_dispatch > 0
    /\ hist.escaped = "OSError"
    /\ fork_lock.pings = {TRUE, FALSE}
    /\ fork_lock.holder = "ping"
    /\ fork_lock.start_at = "idle"


(***************************************************************************)
(* C28 as stated: when run() of a task yields a batch whose tasks are all  *)
(* complete, the interim outcome put is (task_id, RUNNING) with an empty   *)
(* new_deps, and the coordinator registers no task while it handles an     *)
(* interim outcome.                                                        *)
(***************************************************************************)
\* The dispatched executor gets to run(), a generator whose batches are
\* all complete.
DispatchedYieldsComplete ==
    /\ hist'.n_dispatch = hist.n_dispatch + 1
    /\ ~external[Dispatched.task_id]
    /\ run_body[Dispatched.task_id] \in {"yields", "yields2"}
    /\ \A i \in 1..Len(deps[Dispatched.task_id]) :
          /\ deps[Dispatched.task_id][i] \in Tasks
          /\ complete[deps[Dispatched.task_id][i]] = "true"
    /\ \A i \in 1..Len(YieldBatch) : complete[YieldBatch[i]] = "true"

\* _handle_next_task handles an interim outcome: the first of the queue.
HandlesInterim == hist'.n_interim = hist.n_interim + 1

C28_AsStated ==
    [][/\ DispatchedYieldsComplete
            => \A i \in 1..Len(Dispatched.out) :
                  Dispatched.out[i].status = RUNNING
                     => Dispatched.out[i].new_deps = << >>
       /\ HandlesInterim
            => /\ Head(task_result_queue).new_deps = << >>
               /\ scheduled_tasks' = scheduled_tasks
               /\ \A t \in Tasks \ {Head(task_result_queue).task_id} :
                     sched'[t] = sched[t]]_vars

(***************************************************************************)
(* C28: when run() of a task yields a batch whose tasks are all complete,  *)
(* the interim outcome put is (task_id, RUNNING) with the batch as its     *)
(* new_deps; the generator goes on, to its next batch or to its end, where *)
(* the outcome (task_id, DONE) with an empty new_deps is put; handling the *)
(* interim outcome, the coordinator registers every task of the batch      *)
(* (add()) and then reports (task_id, RUNNING, new_deps = batch) to the    *)
(* scheduler, the task staying in _running_tasks.                          *)
(***************************************************************************)
C28_InterimCarriesBatch ==
    [][/\ DispatchedYieldsComplete
            => /\ Len(Dispatched.out) = Batches(Dispatched.task_id) + 1
               /\ \A i \in 1..Batches(Dispatched.task_id) :
                     Dispatched.out[i] =
                        Outcome(Dispatched.task_id, RUNNING, "", << >>, YieldBatch)
               /\ Dispatched.out[Len(Dispatched.out)].status = DONE
               /\ Dispatched.out[Len(Dispatched.out)].new_deps = << >>
       /\ HandlesInterim
            => LET o == Head(task_result_queue) IN
               /\ o.status = RUNNING
               /\ o.new_deps = YieldBatch
               /\ running_tasks[o.task_id] # 0
               /\ running_tasks' = running_tasks
               /\ Range(YieldBatch) \subseteq scheduled_tasks'
               /\ \A i \in 1..Len(YieldBatch) :
                     sched'[YieldBatch[i]].status = DONE
               /\ sched'[o.task_id].status = RUNNING
               /\ sched'[o.task_id].call.new_deps = YieldBatch]_vars

\* Nothing was added before run(); the interim outcome of A was handled and
\* registered the batch, which the scheduler has as DONE and as the
\* new_deps of A, RUNNING.
C28_Witness ==
    /\ hist.n_adds = 0
    /\ hist.n_interim > 0
    /\ running_tasks["A"] # 0
    /\ Range(YieldBatch) \subseteq scheduled_tasks
    /\ sched["C"].status = DONE
    /\ sched["A"].status = RUNNING
    /\ sched["A"].call.new_deps = YieldBatch


(***************************************************************************)
(* C29: the executor of an external task puts exactly one outcome, DONE if *)
(* complete() returned true and FAILED if it returned false or raised; it  *)
(* triggers PROCESSING_TIME in every case, and the event after it is       *)
(* SUCCESS when the outcome is DONE and FAILURE when it is FAILED.         *)
(***************************************************************************)
\* The executor of an external task is dispatched.
DispatchedExternal ==
    /\ hist'.n_dispatch = hist.n_dispatch + 1
    /\ external[Dispatched.task_id]

\* The outcome of the dispatched external task: one, DONE iff complete()
\* returned true, else FAILED.
ExternalOneOutcome ==
    /\ Len(Dispatched.out) = 1
    /\ Dispatched.out[1].task_id = Dispatched.task_id
    /\ Dispatched.out[1].status =
          IF complete[Dispatched.task_id] = "true" THEN DONE ELSE FAILED
    /\ Emitted = Dispatched.out

C29_ExternalOutcomeAndEvents ==
    [][DispatchedExternal
         => /\ ExternalOneOutcome
            /\ \E i \in 1..Len(Dispatched.events) - 1 :
                  /\ Dispatched.events[i] = "PROCESSING_TIME"
                  /\ i + 1 = Len(Dispatched.events)
                  /\ Dispatched.events[i + 1] =
                        IF Dispatched.out[1].status = DONE
                        THEN "SUCCESS" ELSE "FAILURE"]_vars

=============================================================================
